---------------------------- MODULE Spec2Model ----------------------------
(***************************************************************************)
(* Population synthesis of cmd/population/population.go: the prevalence    *)
(* tables and their lookup, the derivation of conditional prevalences,     *)
(* the population sampler, the bias estimator and the condition assigner.  *)
(*                                                                         *)
(* Arithmetic.  The program computes with float64.  The model computes     *)
(* with exact rationals [n, d] (d > 0, lowest terms) extended by the       *)
(* IEEE values a division by zero produces: NaN = [0, 0], +Inf = [1, 0],   *)
(* -Inf = [-1, 0].  Rounding error of float64 is not modelled.             *)
(* A run-time panic of a lookup is the value Panic = [0, -1].              *)
(*                                                                         *)
(* Randomness.  rand.Float64() is a sample in [0, 1): a comparison         *)
(* "sample < x" may come out TRUE iff x > 0 and FALSE iff not x >= 1,      *)
(* and Probabilities.Choose may return any index of positive probability.  *)
(***************************************************************************)
EXTENDS Integers, Sequences, FiniteSets, TLC

VARIABLES
    pc,             \* position of the run / of the function under check
    gps,            \* map[GPPracticeCode]*GPPractice
    lsoas,          \* map[LSOACode]*LSOA
    homes,          \* LSOASet: the home regions buildPopulation ranges over
    nearbyGPs,      \* map[LSOACode][]GPPracticeCode
    people,         \* []Person
    noPossibleGPs,  \* the diagnostic counter of buildPopulation
    joint,          \* JointPrevalences
    byPractice,     \* map[GPPracticeCode][]*Person, as indices into people
    loop,           \* the running loop: keys left to range over, current key, index
    output,         \* the rows written to gps.csv
    byAge,          \* the table written to population-by-age.csv
    json,           \* the PopulationJSON written to population.json
    goroutines,     \* the goroutines, channels and mutex of buildNearbyGPs
    args,           \* arguments of the function called (function-level specifications)
    result          \* its return value

run == <<gps, lsoas, homes, nearbyGPs, people, noPossibleGPs, joint, byPractice,
         loop, output, byAge, json, goroutines>>

vars == <<pc, run, args, result>>

Empty == <<>>

\* the state of writePopulation in the specifications of a single function
NoRun ==
    /\ gps = Empty
    /\ lsoas = Empty
    /\ homes = {}
    /\ nearbyGPs = Empty
    /\ people = Empty
    /\ noPossibleGPs = 0
    /\ joint = Empty
    /\ byPractice = Empty
    /\ loop = [todo |-> {}, cur |-> "-", i |-> 0]
    /\ output = Empty
    /\ byAge = Empty
    /\ json = Empty
    /\ goroutines = Empty

-----------------------------------------------------------------------------
(* Bounds of the model *)

\* ages are 0..MaxAge
MaxAge == 2
\* a by-sex band list has at most MaxBands bands
MaxBands == 2

Ages == 0..MaxAge

-----------------------------------------------------------------------------
(* float64 as extended rationals *)

RECURSIVE Gcd(_, _)
Gcd(a, b) == IF b = 0 THEN a ELSE Gcd(b, a % b)

Abs(x) == IF x < 0 THEN -x ELSE x

Sign(x) == IF x < 0 THEN -1 ELSE IF x > 0 THEN 1 ELSE 0

\* the rational n/d, d > 0, in lowest terms
Rat(n, d) ==
    LET g == Gcd(Abs(n), d) IN
    IF n = 0 THEN [n |-> 0, d |-> 1] ELSE [n |-> n \div g, d |-> d \div g]

NaN == [n |-> 0, d |-> 0]
PInf == [n |-> 1, d |-> 0]
NInf == [n |-> -1, d |-> 0]
Panic == [n |-> 0, d |-> -1]
Zero == [n |-> 0, d |-> 1]
One == [n |-> 1, d |-> 1]

IsNaN(x) == x = NaN
IsInf(x) == x.d = 0 /\ x.n # 0
IsFinite(x) == x.d > 0
IsPanic(x) == x.d < 0

\* float64 +
RAdd(x, y) ==
    IF IsNaN(x) \/ IsNaN(y) THEN NaN
    ELSE IF IsInf(x) /\ IsInf(y) THEN (IF x = y THEN x ELSE NaN)
    ELSE IF IsInf(x) THEN x
    ELSE IF IsInf(y) THEN y
    ELSE Rat(x.n * y.d + y.n * x.d, x.d * y.d)

RNeg(x) == [n |-> -x.n, d |-> x.d]

\* float64 -
RSub(x, y) == RAdd(x, RNeg(y))

\* float64 *
RMul(x, y) ==
    IF IsNaN(x) \/ IsNaN(y) THEN NaN
    ELSE IF IsInf(x) \/ IsInf(y)
         THEN (IF x.n = 0 \/ y.n = 0 THEN NaN
               ELSE IF Sign(x.n) = Sign(y.n) THEN PInf ELSE NInf)
    ELSE Rat(x.n * y.n, x.d * y.d)

\* float64 / : a division by zero gives an infinity, or NaN for 0/0
RDiv(x, y) ==
    IF IsNaN(x) \/ IsNaN(y) THEN NaN
    ELSE IF IsInf(x) THEN (IF IsInf(y) THEN NaN
                           ELSE IF y.n < 0 THEN RNeg(x) ELSE x)
    ELSE IF IsInf(y) THEN Zero
    ELSE IF y.n = 0 THEN (IF x.n = 0 THEN NaN
                          ELSE IF x.n > 0 THEN PInf ELSE NInf)
    ELSE Rat(x.n * y.d * Sign(y.n), x.d * Abs(y.n))

\* float64 < : FALSE whenever an operand is NaN
RLess(x, y) ==
    IF IsNaN(x) \/ IsNaN(y) THEN FALSE
    ELSE IF x = y THEN FALSE
    ELSE IF x = NInf \/ y = PInf THEN TRUE
    ELSE IF x = PInf \/ y = NInf THEN FALSE
    ELSE x.n * y.d < y.n * x.d

RLeq(x, y) == ~IsNaN(x) /\ ~IsNaN(y) /\ (x = y \/ RLess(x, y))

\* math.Min
RMin(x, y) ==
    IF x = NInf \/ y = NInf THEN NInf
    ELSE IF IsNaN(x) \/ IsNaN(y) THEN NaN
    ELSE IF RLess(y, x) THEN y ELSE x

\* float64(i) of an int
FromInt(i) == [n |-> i, d |-> 1]

\* a value a draw may use as a probability
InUnit(x) == RLeq(Zero, x) /\ RLeq(x, One)

-----------------------------------------------------------------------------
(* Sex, AgeRange, AgePrevalence, AgePrevalences *)

Male == 0
Female == 1
Other == 2
LastSex == Other
Sexes == {Male, Female, Other}

\* AgeRange.Contains
Contains(a, age) == age >= a.Begin /\ (age < a.End \/ a.End = 0)

RECURSIVE ScanLast(_, _, _, _)
ScanLast(bands, age, i, found) ==
    IF i > Len(bands) THEN found
    ELSE IF Contains(bands[i].AgeRange, age)
         THEN ScanLast(bands, age, i + 1, bands[i].Prevalence)
         ELSE ScanLast(bands, age, i + 1, found)

\* a lookup in which a later band overrides an earlier one
Prevalence_LastBandWins(a, sex, age) ==
    IF sex + 1 > Len(a) THEN Panic ELSE ScanLast(a[sex + 1], age, 1, Zero)

\* a lookup that falls back on the last band where no band contains the age
Scan_LastBandDefault(bands, age, i) ==
    IF \E k \in 1..Len(bands) : Contains(bands[k].AgeRange, age)
    THEN bands[CHOOSE k \in 1..Len(bands) :
                  /\ Contains(bands[k].AgeRange, age)
                  /\ \A j \in 1..(k - 1) : ~Contains(bands[j].AgeRange, age)].Prevalence
    ELSE IF Len(bands) = 0 THEN Zero
    ELSE bands[Len(bands)].Prevalence

RECURSIVE Scan(_, _, _)
\* the loop of AgePrevalences.Prevalence over a[sex], from band i on
Scan(bands, age, i) ==
    IF i > Len(bands) THEN Zero
    ELSE IF Contains(bands[i].AgeRange, age) THEN bands[i].Prevalence
    ELSE Scan(bands, age, i + 1)

\* AgePrevalences.Prevalence; a[sex] of a sex the table has no list for is an
\* index out of range, which panics
Prevalence(a, sex, age) ==
    IF sex + 1 > Len(a) THEN Panic ELSE Scan(a[sex + 1], age, 1)

-----------------------------------------------------------------------------
(* Tables the lookup is checked on *)

\* the age ranges a band may have: half-open [Begin, End), or End = 0 for
\* the open top band
Ranges ==
    {[Begin |-> b, End |-> e] : b \in Ages, e \in 0..(MaxAge + 1)}

WellFormedRanges == {r \in Ranges : r.End = 0 \/ r.End > r.Begin}

Quarter == Rat(1, 4)
Half == Rat(1, 2)
ThreeQuarters == Rat(3, 4)

BandProbabilities == {Quarter, ThreeQuarters}

RangeLists == UNION {[1..k -> WellFormedRanges] : k \in 0..MaxBands}

\* a by-sex band list over the ranges rs with the probabilities ps
BandList(rs, ps) ==
    [i \in 1..Len(rs) |-> [AgeRange |-> rs[i], Prevalence |-> ps[i]]]

\* tables with a male and a female list over the same ranges, as the tables
\* of the program have, and band probabilities of their own
LookupTables ==
    UNION {
        {<<BandList(rs, pm), BandList(rs, pf)>> :
            pm \in [1..Len(rs) -> BandProbabilities],
            pf \in [1..Len(rs) -> {Zero, Half}]}
        : rs \in RangeLists}

-----------------------------------------------------------------------------
(* Specification of the lookup: one call of AgePrevalences.Prevalence *)

InitPrevalence ==
    /\ pc = "lookup"
    /\ NoRun
    /\ \E t \in LookupTables, sex \in Sexes, age \in 0..(MaxAge + 1) :
           args = [table |-> t, sex |-> sex, age |-> age]
    /\ result = Zero

CallPrevalence ==
    /\ pc = "lookup"
    /\ result' = Prevalence(args.table, args.sex, args.age)
    /\ pc' = "returned"
    /\ UNCHANGED <<run, args>>

NextPrevalence == CallPrevalence

SpecPrevalence == InitPrevalence /\ [][NextPrevalence]_vars

\* the bands of the list of args.sex that contain args.age
Hits == {i \in 1..Len(args.table[args.sex + 1]) :
            Contains(args.table[args.sex + 1][i].AgeRange, args.age)}

\* C10: for a sex the table has a list for, Prevalence(sex, age) returns the
\* probability of the first band, in list order, of that sex's list whose
\* range contains the age, and 0.0 when no band contains it; with
\* overlapping bands the earlier one wins.
C10_FirstContainingBand ==
    (pc = "returned" /\ args.sex + 1 <= Len(args.table)) =>
        IF Hits = {}
        THEN result = Zero
        ELSE \E i \in Hits :
                /\ \A j \in Hits : i <= j
                /\ result = args.table[args.sex + 1][i].Prevalence

\* two overlapping bands of different probability contain the age, and the
\* lookup has returned
C10_Witness ==
    /\ pc = "returned"
    /\ args.sex + 1 <= Len(args.table)
    /\ Cardinality(Hits) = 2
    /\ args.table[args.sex + 1][1].Prevalence # args.table[args.sex + 1][2].Prevalence
    /\ result = args.table[args.sex + 1][1].Prevalence

-----------------------------------------------------------------------------
(* Person *)

QOFConditionDiabetes == 0
QOFConditionHypertension == 1
QOFConditionCOPD == 2
QOFConditionLast == QOFConditionCOPD
Conditions == QOFConditionDiabetes..QOFConditionLast

GPPracticeCodeInvalid == ""

NoConditions == [c \in Conditions |-> FALSE]

\* the Person literal of buildPopulation: Conditions start all false
NewPerson(id, sex, age, home, gp) ==
    [ID |-> id, Sex |-> sex, Age |-> age, Home |-> home, GP |-> gp,
     Conditions |-> NoConditions]

-----------------------------------------------------------------------------
(* buildJointPrevalence *)

RECURSIVE BandSums_AnySex(_, _, _, _, _, _, _)
\* the sums taken over the persons of the band whatever their sex
BandSums_AnySex(c1, c2, a, sex, population, i, acc) ==
    IF i > Len(population) THEN acc
    ELSE IF Contains(a.AgeRange, population[i].Age)
    THEN LET p1 == Prevalence(c1, sex, population[i].Age)
             p2 == Prevalence(c2, sex, population[i].Age)
         IN  IF IsPanic(p1) \/ IsPanic(p2)
             THEN [acc EXCEPT !.panic = TRUE]
             ELSE BandSums_AnySex(c1, c2, a, sex, population, i + 1,
                      [n |-> acc.n + 1, ec1 |-> RAdd(acc.ec1, p1),
                       ec2 |-> RAdd(acc.ec2, p2), panic |-> FALSE])
    ELSE BandSums_AnySex(c1, c2, a, sex, population, i + 1, acc)

RECURSIVE BandSums(_, _, _, _, _, _, _)
\* the inner loop of buildJointPrevalence over population, from person i on:
\* n, ec1 and ec2 of the persons of the sex whose age the band a contains.  A
\* lookup in a table without a list for the person's sex panics.
BandSums(c1, c2, a, sex, population, i, acc) ==
    IF i > Len(population) THEN acc
    ELSE IF population[i].Sex = sex /\ Contains(a.AgeRange, population[i].Age)
    THEN LET p1 == Prevalence(c1, population[i].Sex, population[i].Age)
             p2 == Prevalence(c2, population[i].Sex, population[i].Age)
         IN  IF IsPanic(p1) \/ IsPanic(p2)
             THEN [acc EXCEPT !.panic = TRUE]
             ELSE BandSums(c1, c2, a, sex, population, i + 1,
                      [n |-> acc.n + 1, ec1 |-> RAdd(acc.ec1, p1),
                       ec2 |-> RAdd(acc.ec2, p2), panic |-> FALSE])
    ELSE BandSums(c1, c2, a, sex, population, i + 1, acc)

NoSums == [n |-> 0, ec1 |-> Zero, ec2 |-> Zero, panic |-> FALSE]

\* the two entries without the min: the reported joint taken as it is
DeriveBand_NoMin(c1, c2, a, sex, population) ==
    LET s == BandSums(c1, c2, a, sex, population, 1, NoSums)
        pc1 == RDiv(s.ec1, FromInt(s.n))
        pc2 == RDiv(s.ec2, FromInt(s.n))
        pc1c2 == a.Prevalence
    IN  [panic |-> s.panic,
         given |-> [AgeRange |-> a.AgeRange, Prevalence |-> RDiv(pc1c2, pc2)],
         givenNot |-> [AgeRange |-> a.AgeRange,
                       Prevalence |-> RDiv(RSub(pc1, pc1c2), RSub(One, pc2))]]

\* the two entries with the complement taken of pc1 in place of pc2
DeriveBand_WrongComplement(c1, c2, a, sex, population) ==
    LET s == BandSums(c1, c2, a, sex, population, 1, NoSums)
        pc1 == RDiv(s.ec1, FromInt(s.n))
        pc2 == RDiv(s.ec2, FromInt(s.n))
        pc1c2 == RMin(RMin(a.Prevalence, pc1), pc2)
    IN  [panic |-> s.panic,
         given |-> [AgeRange |-> a.AgeRange, Prevalence |-> RDiv(pc1c2, pc2)],
         givenNot |-> [AgeRange |-> a.AgeRange,
                       Prevalence |-> RDiv(RSub(pc2, pc1c2), RSub(One, pc1))]]

\* a quotient with a divisor that is 0 or no number is replaced by 0
DeriveBand_Guarded(c1, c2, a, sex, population) ==
    LET s == BandSums(c1, c2, a, sex, population, 1, NoSums)
        pc1 == RDiv(s.ec1, FromInt(s.n))
        pc2 == RDiv(s.ec2, FromInt(s.n))
        pc1c2 == RMin(RMin(a.Prevalence, pc1), pc2)
        guarded(x, y) == IF IsFinite(y) /\ y # Zero THEN RDiv(x, y) ELSE Zero
    IN  [panic |-> s.panic,
         given |-> [AgeRange |-> a.AgeRange, Prevalence |-> guarded(pc1c2, pc2)],
         givenNot |-> [AgeRange |-> a.AgeRange,
                       Prevalence |-> guarded(RSub(pc1, pc1c2), RSub(One, pc2))]]

\* the body of the band loop of buildJointPrevalence: the two entries
\* appended for the band a of c1c2[sex]
DeriveBand(c1, c2, a, sex, population) ==
    LET s == BandSums(c1, c2, a, sex, population, 1, NoSums)
        pc1 == RDiv(s.ec1, FromInt(s.n))
        pc2 == RDiv(s.ec2, FromInt(s.n))
        pc1c2 == RMin(RMin(a.Prevalence, pc1), pc2)
    IN  [panic |-> s.panic,
         given |-> [AgeRange |-> a.AgeRange, Prevalence |-> RDiv(pc1c2, pc2)],
         givenNot |-> [AgeRange |-> a.AgeRange,
                       Prevalence |-> RDiv(RSub(pc1, pc1c2), RSub(One, pc2))]]

\* buildJointPrevalence: the tables of c1|c2 and c1|!c2, each of len(c1c2)
\* lists of which the male and the female one are filled; c1c2[sex] of a
\* table with fewer than two lists panics
BuildJointPrevalence(c1, c2, c1c2, population) ==
    IF Len(c1c2) < 2
    THEN [panic |-> TRUE, givenC2 |-> <<>>, givenNotC2 |-> <<>>]
    ELSE LET band(s, k) == DeriveBand(c1, c2, c1c2[s][k], s - 1, population)
         IN  [panic |-> \E s \in 1..2 : \E k \in 1..Len(c1c2[s]) : band(s, k).panic,
              givenC2 |->
                  [s \in 1..Len(c1c2) |->
                      IF s <= 2
                      THEN [k \in 1..Len(c1c2[s]) |-> band(s, k).given]
                      ELSE <<>>],
              givenNotC2 |->
                  [s \in 1..Len(c1c2) |->
                      IF s <= 2
                      THEN [k \in 1..Len(c1c2[s]) |-> band(s, k).givenNot]
                      ELSE <<>>]]

-----------------------------------------------------------------------------
(* Specification of the derivation: one call of buildJointPrevalence *)

\* a population has at most MaxPeople persons
MaxPeople == 2

\* the bands of a marginal table: none below age 1, an open top band
MarginalRanges == <<[Begin |-> 1, End |-> 2], [Begin |-> 2, End |-> 0]>>

UnitProbabilities == {Zero, Half, One}

\* marginal tables: the female list has the ranges of the male list and the
\* complementary probabilities
MarginalTables ==
    {<<BandList(MarginalRanges, <<p, q>>),
       BandList(MarginalRanges, <<RSub(One, p), RSub(One, q)>>)>> :
        p \in UnitProbabilities, q \in UnitProbabilities}

JointRangeLists ==
    {<<[Begin |-> 1, End |-> 0]>>,
     <<[Begin |-> 0, End |-> 2], [Begin |-> 2, End |-> 0]>>}

\* joint tables: not broken down by sex, the male list is duplicated
JointTables ==
    UNION {{<<BandList(rs, ps), BandList(rs, ps)>> :
               ps \in [1..Len(rs) -> {Zero, Half}]}
           : rs \in JointRangeLists}

\* persons as buildJointPrevalence reads them: Sex and Age
SampledPersons ==
    {NewPerson(0, sex, age, "h1", "g1") : sex \in Sexes, age \in Ages}

Populations == UNION {[1..k -> SampledPersons] : k \in 0..MaxPeople}

InitJoint ==
    /\ pc = "derive"
    /\ NoRun
    /\ \E c1 \in MarginalTables, c2 \in MarginalTables, c1c2 \in JointTables,
          population \in Populations :
           args = [c1 |-> c1, c2 |-> c2, c1c2 |-> c1c2, population |-> population]
    /\ result = Zero

CallBuildJointPrevalence ==
    /\ pc = "derive"
    /\ result' = BuildJointPrevalence(args.c1, args.c2, args.c1c2, args.population)
    /\ pc' = "derived"
    /\ UNCHANGED <<run, args>>

NextJoint == CallBuildJointPrevalence

SpecJoint == InitJoint /\ [][NextJoint]_vars

\* the persons of the population of the given sex whose age is in the band
InBand(sex, a) ==
    {i \in 1..Len(args.population) :
        /\ args.population[i].Sex = sex
        /\ Contains(a.AgeRange, args.population[i].Age)}

RECURSIVE SumOfLookups(_, _, _)
\* the sum of the lookups of the table over the persons S
SumOfLookups(table, sex, S) ==
    IF S = {} THEN Zero
    ELSE LET i == CHOOSE j \in S : TRUE
         IN  RAdd(Prevalence(table, sex, args.population[i].Age),
                  SumOfLookups(table, sex, S \ {i}))

\* the average of the marginal lookups over the persons of the band
BandAverage(table, sex, a) ==
    RDiv(SumOfLookups(table, sex, InBand(sex, a)),
         FromInt(Cardinality(InBand(sex, a))))

LeastOf(S) == CHOOSE x \in S : \A y \in S : RLeq(x, y)

\* min(reported joint, pc1, pc2) of a band with a person in it
EffectiveJoint(sex, a) ==
    LeastOf({a.Prevalence, BandAverage(args.c1, sex, a), BandAverage(args.c2, sex, a)})

\* the band k of the joint list of the sex, and the entries derived for it
JointBands(sex) == 1..Len(args.c1c2[sex + 1])
JointBand(sex, k) == args.c1c2[sex + 1][k]
GivenPresent(sex, k) == result.givenC2[sex + 1][k]
GivenAbsent(sex, k) == result.givenNotC2[sex + 1][k]

Derived == pc = "derived" /\ ~result.panic

\* a band the range property of C8 is about: a person in it, pc2 not 0 or 1
ProperBand(sex, k) ==
    /\ InBand(sex, JointBand(sex, k)) # {}
    /\ BandAverage(args.c2, sex, JointBand(sex, k)) \notin {Zero, One}

\* pc1 + pc2 - 1 <= min(joint, pc1, pc2): the effective joint is not below
\* the least joint prevalence the two averaged marginals allow
AboveLowerBound(sex, k) ==
    RLeq(RSub(RAdd(BandAverage(args.c1, sex, JointBand(sex, k)),
                   BandAverage(args.c2, sex, JointBand(sex, k))), One),
         EffectiveJoint(sex, JointBand(sex, k)))

C9_DerivedFromBandAverages ==
    Derived =>
        \A sex \in {Male, Female} :
            /\ Len(result.givenC2[sex + 1]) = Len(args.c1c2[sex + 1])
            /\ Len(result.givenNotC2[sex + 1]) = Len(args.c1c2[sex + 1])
            /\ \A k \in JointBands(sex) :
                LET a == JointBand(sex, k)
                    pc1 == BandAverage(args.c1, sex, a)
                    pc2 == BandAverage(args.c2, sex, a)
                    some == InBand(sex, a) # {}
                IN  /\ GivenPresent(sex, k).AgeRange = a.AgeRange
                    /\ GivenAbsent(sex, k).AgeRange = a.AgeRange
                    /\ some =>
                          /\ RLeq(EffectiveJoint(sex, a), pc1)
                          /\ RLeq(EffectiveJoint(sex, a), pc2)
                          /\ RLeq(EffectiveJoint(sex, a), a.Prevalence)
                    /\ (some /\ pc2 # Zero) =>
                          RMul(GivenPresent(sex, k).Prevalence, pc2)
                              = EffectiveJoint(sex, a)
                    /\ (some /\ pc2 # One) =>
                          RMul(GivenAbsent(sex, k).Prevalence, RSub(One, pc2))
                              = RSub(pc1, EffectiveJoint(sex, a))
                    /\ (~some \/ pc2 = Zero) => ~IsFinite(GivenPresent(sex, k).Prevalence)
                    /\ (~some \/ pc2 = One) => ~IsFinite(GivenAbsent(sex, k).Prevalence)

\* a band of two persons with different lookups of B (pc2 = 1/4) and a
\* reported joint of 1/2 above it, so that the min takes effect and
\* P(A|B present) = (1/4) / (1/4) = 1
C9_Witness ==
    /\ Derived
    /\ \E sex \in {Male, Female} : \E k \in JointBands(sex) :
          LET a == JointBand(sex, k)
          IN  /\ Cardinality(InBand(sex, a)) = 2
              /\ BandAverage(args.c2, sex, a) = Rat(1, 4)
              /\ a.Prevalence = Half
              /\ GivenPresent(sex, k).Prevalence = One

-----------------------------------------------------------------------------
(* Prevalence tables of the run.  The program's tables (ages 16..75+, joint *)
(* tables from 20 or 30 up, probabilities to 8 decimals) are scaled to the  *)
(* ages 0..MaxAge and to sixteenths.  As in the program: the marginals have *)
(* no band for age 0, bands that follow one another without a gap and an    *)
(* open top band; the youngest female diabetes band is 0; the joint tables  *)
(* of the pairs with COPD start one band later than the marginals; a joint  *)
(* table has the same list for both sexes; a band of a joint table ends one *)
(* year before the next one begins (20..29, 30..39 in the program, End      *)
(* being exclusive); a joint entry is below both marginals and no two       *)
(* marginals of a band add up to more than 1.                               *)

Eighth == Rat(1, 8)
Sixteenth == Rat(1, 16)

LowBand == [Begin |-> 1, End |-> 2]
TopBand == [Begin |-> 2, End |-> 0]
LateBand == [Begin |-> 3, End |-> 0]

DiabetesPrevalence ==
    <<BandList(<<LowBand, TopBand>>, <<Eighth, Quarter>>),
      BandList(<<LowBand, TopBand>>, <<Zero, Quarter>>)>>

HypertensionPrevalence ==
    <<BandList(<<LowBand, TopBand>>, <<Quarter, ThreeQuarters>>),
      BandList(<<LowBand, TopBand>>, <<Eighth, Half>>)>>

COPDPrevalence ==
    <<BandList(<<LowBand, TopBand>>, <<Eighth, Quarter>>),
      BandList(<<LowBand, TopBand>>, <<Eighth, Eighth>>)>>

AllPrevalences ==
    (QOFConditionDiabetes :> DiabetesPrevalence)
    @@ (QOFConditionHypertension :> HypertensionPrevalence)
    @@ (QOFConditionCOPD :> COPDPrevalence)

HypertensionAndCOPDPrevalence ==
    <<BandList(<<TopBand>>, <<Eighth>>), BandList(<<TopBand>>, <<Eighth>>)>>

DiabetesAndCOPDPrevalence ==
    <<BandList(<<TopBand>>, <<Sixteenth>>), BandList(<<TopBand>>, <<Sixteenth>>)>>

DiabetesAndHypertensionPrevalence ==
    <<BandList(<<LowBand, LateBand>>, <<Sixteenth, Eighth>>),
      BandList(<<LowBand, LateBand>>, <<Sixteenth, Eighth>>)>>

AllComorbidities ==
    (<<QOFConditionHypertension, QOFConditionCOPD>> :> HypertensionAndCOPDPrevalence)
    @@ (<<QOFConditionDiabetes, QOFConditionCOPD>> :> DiabetesAndCOPDPrevalence)
    @@ (<<QOFConditionDiabetes, QOFConditionHypertension>> :> DiabetesAndHypertensionPrevalence)
    @@ (<<QOFConditionCOPD, QOFConditionHypertension>> :> HypertensionAndCOPDPrevalence)
    @@ (<<QOFConditionCOPD, QOFConditionDiabetes>> :> DiabetesAndCOPDPrevalence)
    @@ (<<QOFConditionHypertension, QOFConditionDiabetes>> :> DiabetesAndHypertensionPrevalence)

\* a map lookup: the zero value (a nil table) for a missing key
TableOf(m, key) == IF key \in DOMAIN m THEN m[key] ELSE Empty

\* conditions := []QOFCondition{dm, hyp, copd} of writePopulation
ConditionList ==
    <<QOFConditionDiabetes, QOFConditionHypertension, QOFConditionCOPD>>

-----------------------------------------------------------------------------
(* Probabilities and the helpers of the sampler *)

RECURSIVE SumInts(_, _)
\* sum, from index i on
SumInts(xs, i) == IF i > Len(xs) THEN 0 ELSE xs[i] + SumInts(xs, i + 1)

sum(xs) == SumInts(xs, 1)

sub(xs, ys) == [i \in 1..Len(xs) |-> xs[i] - ys[i]]

mulf(xs, ys) == [i \in 1..Len(xs) |-> RMul(xs[i], ys[i])]

ratios(xs) ==
    IF sum(xs) > 0
    THEN [i \in 1..Len(xs) |-> RDiv(FromInt(xs[i]), FromInt(sum(xs)))]
    ELSE [i \in 1..Len(xs) |-> RDiv(One, FromInt(Len(xs)))]

RECURSIVE SumRats(_, _)
SumRats(xs, i) == IF i > Len(xs) THEN Zero ELSE RAdd(xs[i], SumRats(xs, i + 1))

normalise(xs) == [i \in 1..Len(xs) |-> RDiv(xs[i], SumRats(xs, 1))]

clamp(x, min, max) ==
    IF RLess(x, min) THEN min ELSE IF RLess(max, x) THEN max ELSE x

RECURSIVE Before(_, _)
\* the sum of the entries before index i: what Choose has subtracted from
\* the sample when it reaches i
Before(p, i) == IF i <= 1 THEN Zero ELSE RAdd(Before(p, i - 1), p[i - 1])

\* Probabilities.Choose: the indices (from 0) it can return for some sample
\* in [0, 1).  Index i is returned when Before(i) <= sample < Before(i) + p[i];
\* the last index is the fall-through.  The entries are finite and >= 0
\* wherever the run calls it.
Choose(p) ==
    {i - 1 : i \in {j \in 1..Len(p) : RLess(Zero, p[j]) /\ RLess(Before(p, j), One)}}
    \cup (IF RLess(SumRats(p, 1), One) THEN {Len(p) - 1} ELSE {})

makeSexProbabilities(lsoa) ==
    LET males == sum(lsoa.MalesByAge)
        females == sum(lsoa.FemalesByAge)
        persons == sum(lsoa.PersonsByAge)
    IN  <<RDiv(FromInt(males), FromInt(persons)),
          RDiv(FromInt(females), FromInt(persons)),
          RDiv(FromInt(persons - males - females), FromInt(persons))>>

makeAgeProbabilities(lsoa) ==
    <<ratios(lsoa.MalesByAge),
      ratios(lsoa.FemalesByAge),
      ratios(sub(sub(lsoa.PersonsByAge, lsoa.MalesByAge), lsoa.FemalesByAge))>>

-----------------------------------------------------------------------------
(* chooseNearbyGP *)

GPPracticeMaxListSize == 20000
GPPracticeEqualDistanceLimitM == 750

\* b6.AngleToMeters(lsoa.Center.Distance(gp.Location)): the distance in
\* metres between the centre of the region and the practice, both being
\* points of a line
DistanceM(home, code) == Abs(lsoas[home].Center - gps[code].Location)

RECURSIVE Filter_KeepAll(_, _)
\* the filter keeping every candidate, whatever its list size
Filter_KeepAll(nearby, i) ==
    IF i > Len(nearby) THEN <<>>
    ELSE <<nearby[i]>> \o Filter_KeepAll(nearby, i + 1)

RECURSIVE Filter(_, _)
\* the first loop of chooseNearbyGP: the candidates of list size > 0
Filter(nearby, i) ==
    IF i > Len(nearby) THEN <<>>
    ELSE IF gps[nearby[i]].ListSize > 0
         THEN <<nearby[i]>> \o Filter(nearby, i + 1)
         ELSE Filter(nearby, i + 1)

\* a distance weight that does not fall with the distance
DistanceWeight_NoDecay(d) == One

\* distances[i] of chooseNearbyGP
DistanceWeight(d) ==
    IF d < GPPracticeEqualDistanceLimitM THEN One
    ELSE RDiv(One, RDiv(FromInt(d), FromInt(GPPracticeEqualDistanceLimitM)))

\* sizes[i] of chooseNearbyGP
SizeWeight(listSize) ==
    clamp(RDiv(FromInt(listSize), FromInt(GPPracticeMaxListSize)), Rat(1, 100), One)

\* p of chooseNearbyGP, after normalise
Weights(home, filtered) ==
    normalise(mulf([i \in 1..Len(filtered) |-> DistanceWeight(DistanceM(home, filtered[i]))],
                   [i \in 1..Len(filtered) |-> SizeWeight(gps[filtered[i]].ListSize)]))

\* chooseNearbyGP: the codes it can return
chooseNearbyGP(home, nearby) ==
    LET filtered == Filter(nearby, 1)
    IN  IF Len(filtered) = 0 THEN {GPPracticeCodeInvalid}
        ELSE {filtered[i + 1] : i \in Choose(Weights(home, filtered))}

-----------------------------------------------------------------------------
(* The inputs of a run of writePopulation *)

NorthCentralLondonICBCode == "QMJ"

GPCodes == {"g1", "g2"}

\* the LSOA whose boundary contains a location, "" where the world has none
LSOAOf(location) ==
    IF location < 1000 THEN "h1" ELSE IF location < 2500 THEN "h2" ELSE ""

\* a GPPractice as readGPPractices creates it and the readers of list sizes
\* and prevalences fill it: ConditionBias, SimulatedListSize and
\* SimulatedConditionCounts have Go's zero values
NewGPPractice(code, icb, location, listSize, prevalence) ==
    [Code |-> code, ICB |-> icb, Location |-> location,
     LSOA |-> LSOAOf(location), ListSize |-> listSize,
     ConditionPrevalence |-> prevalence,
     ConditionBias |-> [c \in Conditions |-> Zero],
     SimulatedListSize |-> 0,
     SimulatedConditionCounts |-> [c \in Conditions |-> 0]]

\* reported prevalences: 0 is "unknown"; a value of 0.40 or more has been
\* replaced by the average by readGPPracticeConditionPrevalence
NotReported == [c \in Conditions |-> Zero]
Reported ==
    (QOFConditionDiabetes :> Quarter)
    @@ (QOFConditionHypertension :> Rat(3, 8))
    @@ (QOFConditionCOPD :> Zero)

\* the residents a census can count: a sex (Other: counted as a person but
\* as neither male nor female) and an age
ResidentKinds == {<<Male, 1>>, <<Female, 2>>, <<Other, 2>>, <<Female, 0>>}

CountAt(residents, sexes, age) ==
    Cardinality({r \in residents : r[1] \in sexes /\ r[2] = age})

\* the LSOA whose census counts the given residents
Census(residents, center) ==
    [Center |-> center,
     PersonsByAge |-> [a \in 1..(MaxAge + 1) |-> CountAt(residents, Sexes, a - 1)],
     MalesByAge |-> [a \in 1..(MaxAge + 1) |-> CountAt(residents, {Male}, a - 1)],
     FemalesByAge |-> [a \in 1..(MaxAge + 1) |-> CountAt(residents, {Female}, a - 1)]]

\* the MSOAs fillMSOAs has read
msoas == ("m1" :> [Code |-> "m1", Name |-> "Camden 001"])

\* the fields fillMSOAs and fillIMDs set on an LSOA; an LSOA the files do
\* not list keeps "" and 0
Filled(lsoa, msoa, decile) == lsoa @@ [MSOACode |-> msoa, IMDDecile |-> decile]

Init ==
    /\ pc = "buildPopulation"
    /\ \E size1 \in {0, 10000}, p1 \in {NotReported, Reported},
          p2 \in {NotReported, Reported} :
           gps = ("g1" :> NewGPPractice("g1", NorthCentralLondonICBCode, 500, size1, p1))
                 @@ ("g2" :> NewGPPractice("g2", "QXX", 3000, 15000, p2))
    /\ \E r1 \in SUBSET ResidentKinds, r2 \in SUBSET ResidentKinds :
           /\ Cardinality(r1) + Cardinality(r2) <= MaxPeople
           /\ lsoas = ("h1" :> Filled(Census(r1, 0), "m1", 1))
                      @@ ("h2" :> Filled(Census(r2, 2000), "", 10))
    /\ homes \in {{"h1", "h2"}, {"h1", "h2", "hx"}}
    /\ nearbyGPs = ("h1" :> <<"g1", "g2">>) @@ ("h2" :> <<"g1">>)
    /\ people = <<>>
    /\ noPossibleGPs = 0
    /\ joint = Empty
    /\ byPractice = Empty
    /\ loop = [todo |-> homes, cur |-> "-", i |-> 0]
    /\ output = Empty
    /\ byAge = Empty
    /\ json = Empty
    /\ goroutines = Empty
    /\ args = Empty
    /\ result = Zero

-----------------------------------------------------------------------------
(* Specification of one call of chooseNearbyGP, for a region at 0 with up   *)
(* to two candidates of any list size and distance                          *)

\* list sizes: none, below 1% of the maximum, inside the clamp, above it
ListSizes == {0, 100, 15000, 30000}

\* distances: inside the limit, at the limit, beyond it
Locations == {500, 750, 3000}

CandidateLists == {<<>>, <<"g1">>, <<"g1", "g2">>, <<"g2", "g1">>}

InitChoose ==
    /\ pc = "chooseNearbyGP"
    /\ \E size1 \in ListSizes, size2 \in ListSizes,
          at1 \in Locations, at2 \in Locations :
           gps = ("g1" :> NewGPPractice("g1", NorthCentralLondonICBCode, at1, size1,
                                        NotReported))
                 @@ ("g2" :> NewGPPractice("g2", NorthCentralLondonICBCode, at2, size2,
                                           NotReported))
    /\ lsoas = ("h1" :> Census({}, 0))
    /\ homes = {"h1"}
    /\ \E nearby \in CandidateLists : nearbyGPs = ("h1" :> nearby)
    /\ people = <<>>
    /\ noPossibleGPs = 0
    /\ joint = Empty
    /\ byPractice = Empty
    /\ loop = [todo |-> {}, cur |-> "-", i |-> 0]
    /\ output = Empty
    /\ byAge = Empty
    /\ json = Empty
    /\ goroutines = Empty
    /\ args = [home |-> "h1"]
    /\ result = [code |-> GPPracticeCodeInvalid]

CallChooseNearbyGP ==
    /\ pc = "chooseNearbyGP"
    /\ \E gp \in chooseNearbyGP(args.home, nearbyGPs[args.home]) :
          result' = [code |-> gp]
    /\ pc' = "chosen"
    /\ UNCHANGED <<run, args>>

NextChoose == CallChooseNearbyGP

SpecChoose == InitChoose /\ [][NextChoose]_vars

\* the candidates given to the call, and those of them with a list size > 0
Candidates == {nearbyGPs[args.home][i] : i \in 1..Len(nearbyGPs[args.home])}
Eligible == {code \in Candidates : gps[code].ListSize > 0}

\* C13: chooseNearbyGP returns the invalid code if and only if no candidate
\* has a list size above 0; otherwise it returns one of the candidates, and
\* one whose list size is above 0.
C13_NoneIffNoEligible ==
    pc = "chosen" =>
        /\ result.code = GPPracticeCodeInvalid <=> Eligible = {}
        /\ result.code # GPPracticeCodeInvalid => result.code \in Eligible

\* a candidate of list size 0 stands first, and the call has returned the
\* other candidate
C13_Witness ==
    /\ pc = "chosen"
    /\ Len(nearbyGPs[args.home]) = 2
    /\ gps[nearbyGPs[args.home][1]].ListSize = 0
    /\ result.code = nearbyGPs[args.home][2]

\* distanceWeight x capacityWeight of a candidate, as the contract states
\* them: 1 up to 750 m and 750 / distance beyond; listSize / 20000 kept
\* within [0.01, 1.0]
StatedWeight(code) ==
    LET d == DistanceM(args.home, code)
        distanceWeight == IF d <= 750 THEN One ELSE Rat(750, d)
        share == Rat(gps[code].ListSize, 20000)
        capacityWeight == IF RLess(share, Rat(1, 100)) THEN Rat(1, 100)
                          ELSE IF RLess(One, share) THEN One ELSE share
    IN  RMul(distanceWeight, capacityWeight)

\* C14: the selection weights of the eligible candidates are proportional to
\* distanceWeight x capacityWeight and add up to 1, every eligible candidate
\* can be drawn, and two candidates of equal list size at 500 m and 3000 m
\* have weights in the ratio 1 : 0.25.
C14_WeightsAsStated ==
    LET filtered == Filter(nearbyGPs[args.home], 1)
        p == Weights(args.home, filtered)
    IN  Len(filtered) > 0 =>
            /\ SumRats(p, 1) = One
            /\ \A i, j \in 1..Len(filtered) :
                  RMul(p[i], StatedWeight(filtered[j]))
                      = RMul(p[j], StatedWeight(filtered[i]))
            /\ chooseNearbyGP(args.home, nearbyGPs[args.home]) = Eligible
            /\ \A i, j \in 1..Len(filtered) :
                  (/\ gps[filtered[i]].ListSize = gps[filtered[j]].ListSize
                   /\ DistanceM(args.home, filtered[i]) = 500
                   /\ DistanceM(args.home, filtered[j]) = 3000)
                      => p[j] = RMul(Quarter, p[i])

\* two candidates of list size 15000 at 500 m and 3000 m, and the call has
\* returned the farther one
C14_Witness ==
    /\ pc = "chosen"
    /\ nearbyGPs[args.home] = <<"g1", "g2">>
    /\ gps["g1"].ListSize = 15000
    /\ gps["g2"].ListSize = 15000
    /\ DistanceM(args.home, "g1") = 500
    /\ DistanceM(args.home, "g2") = 3000
    /\ Weights(args.home, <<"g1", "g2">>) = <<Rat(4, 5), Rat(1, 5)>>
    /\ result.code = "g2"

-----------------------------------------------------------------------------
(* buildPopulation *)

\* n taken from the males alone
HomeSize_MalesOnly == sum(lsoas[loop.cur].MalesByAge)

\* n := sum(lsoa.PersonsByAge) of the home being sampled
HomeSize == sum(lsoas[loop.cur].PersonsByAge)

HomeDone == IF loop.cur = "-" THEN TRUE ELSE loop.i >= HomeSize

\* the next iteration of "for home := range homes", in any order
StartHome ==
    /\ pc = "buildPopulation"
    /\ HomeDone
    /\ \E home \in loop.todo :
          /\ home \in DOMAIN lsoas
          /\ loop' = [todo |-> loop.todo \ {home}, cur |-> home, i |-> 0]
    /\ UNCHANGED <<pc, gps, lsoas, homes, nearbyGPs, people, noPossibleGPs, joint,
                   byPractice, output, byAge, json, args, goroutines, result>>

\* a home that is no LSOA: return nil, fmt.Errorf("no LSOA %s", home)
UnknownHome ==
    /\ pc = "buildPopulation"
    /\ HomeDone
    /\ \E home \in loop.todo : home \notin DOMAIN lsoas
    /\ pc' = "failed"
    /\ people' = <<>>
    /\ UNCHANGED <<gps, lsoas, homes, nearbyGPs, noPossibleGPs, joint, byPractice,
                   loop, output, byAge, json, args, goroutines, result>>

\* the chosen provider's counter left as it is
CountAssigned_Forgotten(gp) == gps

\* gps[gp].SimulatedListSize++
CountAssigned(gp) == [gps EXCEPT ![gp].SimulatedListSize = @ + 1]

\* one iteration of the inner loop: sex, age and GP are drawn, the counter of
\* the GP (or noPossibleGPs) is incremented and the Person is appended
\* the index of the person within its home
NextID_PerHome == loop.i

\* ID: len(people)
NextID == Len(people)

CreatePerson ==
    /\ pc = "buildPopulation"
    /\ ~HomeDone
    /\ LET lsoa == lsoas[loop.cur]
           sp == makeSexProbabilities(lsoa)
           ap == makeAgeProbabilities(lsoa)
           possibleGPs == TableOf(nearbyGPs, loop.cur)
       IN  \E sex \in Choose(sp) :
           \E age \in Choose(ap[sex + 1]) :
           \E gp \in chooseNearbyGP(loop.cur, possibleGPs) :
              /\ IF gp = GPPracticeCodeInvalid
                 THEN /\ noPossibleGPs' = noPossibleGPs + 1
                      /\ gps' = gps
                 ELSE /\ gps' = CountAssigned(gp)
                      /\ noPossibleGPs' = noPossibleGPs
              /\ people' = Append(people, NewPerson(NextID, sex, age, loop.cur, gp))
    /\ loop' = [loop EXCEPT !.i = @ + 1]
    /\ UNCHANGED <<pc, lsoas, homes, nearbyGPs, joint, byPractice, output, byAge, json,
                   args, goroutines, result>>

\* every home has been sampled: return people, nil
ReturnPopulation ==
    /\ pc = "buildPopulation"
    /\ HomeDone
    /\ loop.todo = {}
    /\ pc' = "buildJointPrevalence"
    /\ loop' = [todo |-> {}, cur |-> "-", i |-> 0]
    /\ UNCHANGED <<gps, lsoas, homes, nearbyGPs, people, noPossibleGPs, joint,
                   byPractice, output, byAge, json, args, goroutines, result>>

-----------------------------------------------------------------------------
(* The derivation loop and the grouping of writePopulation *)

OrderedPairs == {<<c, o>> : c \in Conditions, o \in Conditions} \ {<<c, c>> : c \in Conditions}

\* buildJointPrevalence for the pair <<condition, other>>
DerivedFor(pair) ==
    BuildJointPrevalence(TableOf(AllPrevalences, pair[1]), TableOf(AllPrevalences, pair[2]),
                         TableOf(AllComorbidities, pair), people)

\* the keys of the pairs in one order only
JointKeys_Unordered ==
    {<<pair[1], pair[2], b>> : pair \in {q \in OrderedPairs : q[1] < q[2]}, b \in BOOLEAN}

\* JointCondition{Conditions: {c, o}, SecondPresent: b} as <<c, o, b>>
JointKeys == {<<pair[1], pair[2], b>> : pair \in OrderedPairs, b \in BOOLEAN}

\* the loop over the ordered pairs of distinct conditions: both derived
\* tables of every pair are put into joint; a panic of buildJointPrevalence
\* ends the run
DeriveConditionals ==
    /\ pc = "buildJointPrevalence"
    /\ IF \E pair \in OrderedPairs : DerivedFor(pair).panic
       THEN /\ pc' = "panicked"
            /\ joint' = joint
       ELSE /\ pc' = "groupByGP"
            /\ joint' = [key \in JointKeys |->
                            IF key[3] THEN DerivedFor(<<key[1], key[2]>>).givenC2
                            ELSE DerivedFor(<<key[1], key[2]>>).givenNotC2]
    /\ UNCHANGED <<gps, lsoas, homes, nearbyGPs, people, noPossibleGPs, byPractice,
                   loop, output, byAge, json, args, goroutines, result>>

\* the indices of the persons of people with the given GP, in order
PersonsOf(code) ==
    SelectSeq([i \in 1..Len(people) |-> i], LAMBDA i : people[i].GP = code)

\* byPractice[people[i].GP] = append(byPractice[people[i].GP], &people[i]):
\* every GP value met becomes a key, the invalid code included
GroupByGP ==
    /\ pc = "groupByGP"
    /\ byPractice' = [code \in {people[i].GP : i \in 1..Len(people)} |-> PersonsOf(code)]
    /\ pc' = "estimateBias"
    /\ loop' = [todo |-> {people[i].GP : i \in 1..Len(people)}, cur |-> "-", i |-> 1]
    /\ UNCHANGED <<gps, lsoas, homes, nearbyGPs, people, noPossibleGPs, joint,
                   output, byAge, json, args, goroutines, result>>

-----------------------------------------------------------------------------
(* estimateGPPracticeConditionBias *)

RECURSIVE Expected(_, _, _)
\* the loop "expected += prevalence.Prevalence(p.Sex, p.Age)" over the persons
\* ps (indices into people), from position i on; Panic if a lookup panics
Expected(prevalence, ps, i) ==
    IF i > Len(ps) THEN Zero
    ELSE LET v == Prevalence(prevalence, people[ps[i]].Sex, people[ps[i]].Age)
             rest == Expected(prevalence, ps, i + 1)
         IN  IF IsPanic(v) \/ IsPanic(rest) THEN Panic ELSE RAdd(v, rest)

\* a bias that takes the reported prevalence as it is
Bias_Uncorrected(gp, ps, condition, prevalence) ==
    IF RLess(Zero, gp.ConditionPrevalence[condition])
    THEN gp.ConditionPrevalence[condition]
    ELSE One

\* a bias computed whatever the reported prevalence
Bias_ZeroNotSkipped(gp, ps, condition, prevalence) ==
    LET expected == Expected(prevalence, ps, 1)
    IN  IF IsPanic(expected) THEN Panic
        ELSE IF RLess(Zero, expected)
        THEN RDiv(RMul(FromInt(Len(ps)), gp.ConditionPrevalence[condition]), expected)
        ELSE One

\* the body of the loop of estimateGPPracticeConditionBias for one practice
\* with its persons ps: the value ConditionBias[condition] ends with, or
\* Panic
Bias(gp, ps, condition, prevalence) ==
    IF RLess(Zero, gp.ConditionPrevalence[condition])
    THEN LET expected == Expected(prevalence, ps, 1)
         IN  IF IsPanic(expected) THEN Panic
             ELSE IF RLess(Zero, expected)
             THEN RDiv(RMul(FromInt(Len(ps)), gp.ConditionPrevalence[condition]),
                       expected)
             ELSE One
    ELSE One

\* the condition of the running call of estimateGPPracticeConditionBias
CurrentCondition == ConditionList[loop.i]

\* the bias of every condition of the practice is overwritten
WithBias_AllConditions(code, condition, bias) ==
    [gps EXCEPT ![code].ConditionBias = [c \in Conditions |-> bias]]

\* gp.ConditionBias[condition] = bias
WithBias(code, condition, bias) ==
    [gps EXCEPT ![code].ConditionBias[condition] = bias]

\* one iteration of "for code, people := range population", in any order.
\* gps[code] of a code that is no practice is nil, and the store to
\* gp.ConditionBias panics.
EstimateBias ==
    /\ pc = "estimateBias"
    /\ \E code \in loop.todo :
          LET bias == IF code \in DOMAIN gps
                      THEN Bias(gps[code], byPractice[code], CurrentCondition,
                                TableOf(AllPrevalences, CurrentCondition))
                      ELSE Panic
          IN  IF IsPanic(bias)
              THEN /\ pc' = "panicked"
                   /\ gps' = IF code \in DOMAIN gps
                             THEN WithBias(code, CurrentCondition, One)
                             ELSE gps
                   /\ loop' = loop
              ELSE /\ pc' = pc
                   /\ gps' = WithBias(code, CurrentCondition, bias)
                   /\ loop' = [loop EXCEPT !.todo = @ \ {code}]
    /\ UNCHANGED <<lsoas, homes, nearbyGPs, people, noPossibleGPs, joint, byPractice,
                   output, byAge, json, args, goroutines, result>>

\* the call returns: the next condition's call starts, or assignConditions
EstimateReturn ==
    /\ pc = "estimateBias"
    /\ loop.todo = {}
    /\ IF loop.i < Len(ConditionList)
       THEN /\ loop' = [todo |-> DOMAIN byPractice, cur |-> "-", i |-> loop.i + 1]
            /\ pc' = pc
       ELSE /\ loop' = [todo |-> DOMAIN byPractice, cur |-> "-", i |-> 0]
            /\ pc' = "assignConditions"
    /\ UNCHANGED <<gps, lsoas, homes, nearbyGPs, people, noPossibleGPs, joint,
                   byPractice, output, byAge, json, args, goroutines, result>>

-----------------------------------------------------------------------------
(* assignConditions *)

\* the orders rand.Shuffle can leave shuffled in
ShuffleOrders ==
    {perm \in [1..Len(ConditionList) -> Conditions] :
        \A i, j \in 1..Len(ConditionList) : perm[i] = perm[j] => i = j}

\* the outcomes of "rand.Float64() < x" over the samples of [0, 1)
Draw(x) == {b \in BOOLEAN : IF b THEN RLess(Zero, x) ELSE ~RLeq(One, x)}

\* prevalence * bias, or Panic if the lookup panics
Scaled(table, person, bias) ==
    IF IsPanic(Prevalence(table, person.Sex, person.Age)) THEN Panic
    ELSE RMul(Prevalence(table, person.Sex, person.Age), bias)

\* the value of position i taken from the table of the Conditions the
\* person had before the draws, not of those drawn so far
DrawValue_StaleCondition(person, code, perm, i, conds) ==
    IF code \notin DOMAIN gps THEN Panic
    ELSE IF i = 1
    THEN Scaled(TableOf(AllPrevalences, perm[1]), person,
                gps[code].ConditionBias[perm[1]])
    ELSE IF <<perm[i], perm[i - 1], person.Conditions[perm[i - 1]]>> \notin DOMAIN joint
    THEN Panic
    ELSE Scaled(joint[<<perm[i], perm[i - 1], person.Conditions[perm[i - 1]]>>], person,
                gps[code].ConditionBias[perm[i]])

\* the value of position i taken from the marginal table where joint has no
\* table for the key
DrawValue_DefaultTable(person, code, perm, i, conds) ==
    IF code \notin DOMAIN gps THEN Panic
    ELSE IF i = 1 \/ <<perm[i], perm[i - 1], conds[perm[i - 1]]>> \notin DOMAIN joint
    THEN Scaled(TableOf(AllPrevalences, perm[i]), person,
                gps[code].ConditionBias[perm[i]])
    ELSE Scaled(joint[<<perm[i], perm[i - 1], conds[perm[i - 1]]>>], person,
                gps[code].ConditionBias[perm[i]])

\* the value the sample is compared with at position i of the permutation,
\* the conditions drawn so far being conds: the marginal of perm[1], or the
\* table joint[{perm[i], perm[i-1]}, conds[perm[i-1]]], times the bias; Panic
\* if the practice is nil, the lookup panics or the key is not in joint
DrawValue(person, code, perm, i, conds) ==
    IF code \notin DOMAIN gps THEN Panic
    ELSE IF i = 1
    THEN Scaled(TableOf(AllPrevalences, perm[1]), person,
                gps[code].ConditionBias[perm[1]])
    ELSE IF <<perm[i], perm[i - 1], conds[perm[i - 1]]>> \notin DOMAIN joint THEN Panic
    ELSE Scaled(joint[<<perm[i], perm[i - 1], conds[perm[i - 1]]>>], person,
                gps[code].ConditionBias[perm[i]])

RECURSIVE Chain(_, _, _, _, _, _)
\* the draws of one person from position i of the permutation on: the
\* possible outcomes, each with the Conditions it leaves, the values compared
\* and whether it panicked
Chain(person, code, perm, i, conds, values) ==
    IF i > Len(perm) THEN {[panic |-> FALSE, Conditions |-> conds, values |-> values]}
    ELSE LET v == DrawValue(person, code, perm, i, conds)
         IN  IF IsPanic(v)
             THEN {[panic |-> TRUE, Conditions |-> conds, values |-> values]}
             ELSE UNION {Chain(person, code, perm, i + 1,
                               [conds EXCEPT ![perm[i]] = b], Append(values, v))
                         : b \in Draw(v)}

PracticeDone == IF loop.cur = "-" THEN TRUE ELSE loop.i > Len(byPractice[loop.cur])

\* the next iteration of "for code, people := range population", in any order
AssignNextPractice ==
    /\ pc = "assignConditions"
    /\ PracticeDone
    /\ \E code \in loop.todo :
          loop' = [todo |-> loop.todo \ {code}, cur |-> code, i |-> 1]
    /\ UNCHANGED <<pc, gps, lsoas, homes, nearbyGPs, people, noPossibleGPs, joint,
                   byPractice, output, byAge, json, args, goroutines, result>>

\* every counter incremented, whether the condition is present or not
Counted_Unconditionally(counts, conds) == [c \in Conditions |-> counts[c] + 1]

\* gp.SimulatedConditionCounts[condition]++ for the conditions present
Counted(counts, conds) ==
    [c \in Conditions |-> IF conds[c] THEN counts[c] + 1 ELSE counts[c]]

\* one iteration of "for _, p := range people": shuffle, draw every
\* condition, count the conditions present.  result keeps, for the person
\* drawn for last, the shuffled order and the values the samples were
\* compared with, until assignConditions returns.
AssignPerson ==
    /\ pc = "assignConditions"
    /\ ~PracticeDone
    /\ LET idx == byPractice[loop.cur][loop.i]
       IN  \E perm \in ShuffleOrders :
           \E o \in Chain(people[idx], loop.cur, perm, 1, people[idx].Conditions, <<>>) :
              /\ people' = [people EXCEPT ![idx].Conditions = o.Conditions]
              /\ result' = [person |-> idx, perm |-> perm, values |-> o.values]
              /\ IF o.panic
                 THEN /\ pc' = "panicked"
                      /\ gps' = gps
                      /\ loop' = loop
                 ELSE /\ pc' = pc
                      /\ gps' = [gps EXCEPT ![loop.cur].SimulatedConditionCounts =
                                                Counted(@, o.Conditions)]
                      /\ loop' = [loop EXCEPT !.i = @ + 1]
    /\ UNCHANGED <<lsoas, homes, nearbyGPs, noPossibleGPs, joint, byPractice,
                   output, byAge, json, args, goroutines>>

\* returns while practices are left to range over
AssignReturn_Early ==
    /\ pc = "assignConditions"
    /\ PracticeDone
    /\ pc' = "writeGPs"
    /\ loop' = [todo |-> {}, cur |-> "-", i |-> 0]
    /\ result' = Zero
    /\ UNCHANGED <<gps, lsoas, homes, nearbyGPs, people, noPossibleGPs, joint,
                   byPractice, output, byAge, json, args, goroutines>>

AssignReturn ==
    /\ pc = "assignConditions"
    /\ PracticeDone
    /\ loop.todo = {}
    /\ pc' = "writeGPs"
    /\ loop' = [todo |-> {}, cur |-> "-", i |-> 0]
    /\ result' = Zero
    /\ UNCHANGED <<gps, lsoas, homes, nearbyGPs, people, noPossibleGPs, joint,
                   byPractice, output, byAge, json, args, goroutines>>

-----------------------------------------------------------------------------
(* The rows of gps.csv *)

Million == 1000000

\* fmt.Sprintf("%f", x): x to six decimals, as a count of millionths rounded
\* half up, or the text of a value that is no finite number
Sprintf(x) ==
    IF IsNaN(x) THEN [text |-> "NaN", millionths |-> 0]
    ELSE IF x = PInf THEN [text |-> "+Inf", millionths |-> 0]
    ELSE IF x = NInf THEN [text |-> "-Inf", millionths |-> 0]
    ELSE [text |-> "",
          millionths |-> Sign(x.n) * ((2 * Abs(x.n) * Million + x.d) \div (2 * x.d))]

\* the row written for a practice of the ICB
Row(gp) ==
    [simulated_list_size |-> gp.SimulatedListSize,
     list_size |-> gp.ListSize,
     prevalence |-> [c \in Conditions |-> Sprintf(gp.ConditionPrevalence[c])],
     bias |-> [c \in Conditions |-> Sprintf(gp.ConditionBias[c])],
     simulated_prevalence |->
         [c \in Conditions |->
             Sprintf(RDiv(FromInt(gp.SimulatedConditionCounts[c]),
                          FromInt(gp.SimulatedListSize)))]]

\* icbPractices: the practices of the North Central London ICB
IcbPractices == {code \in DOMAIN gps : gps[code].ICB = NorthCentralLondonICBCode}

WriteGPs ==
    /\ pc = "writeGPs"
    /\ output' = [code \in IcbPractices |-> Row(gps[code])]
    /\ pc' = "writePopulationByAge"
    /\ UNCHANGED <<gps, lsoas, homes, nearbyGPs, people, noPossibleGPs, joint,
                   byPractice, loop, byAge, json, args, goroutines, result>>

-----------------------------------------------------------------------------
(* population-byage.csv and population.json                                 *)

\* i |= (1 << j)
SetBit(i, j) == IF (i \div (2 ^ j)) % 2 = 1 THEN i ELSE i + (2 ^ j)

RECURSIVE BitsFrom(_, _, _, _)
\* the loop of conditionsToInt from position k (Go's j + 1) on
BitsFrom(p, conditions, k, i) ==
    IF k > Len(conditions) THEN i
    ELSE BitsFrom(p, conditions, k + 1,
                  IF p.Conditions[conditions[k]] THEN SetBit(i, k - 1) ELSE i)

conditionsToInt(p, conditions) == BitsFrom(p, conditions, 1, 0)

\* make([][]int, rows) of make([]int, n): Go's index i is position i + 1
Zeros(rows, n) == [a \in 1..rows |-> [c \in 1..n |-> 0]]

\* Counts[c]++ of the row with Go's index a
Increment(table, a, c) == [table EXCEPT ![a + 1][c + 1] = @ + 1]

\* gps[p.GP].ICB of a person whose practice is not in gps dereferences nil
NoPractice(ps, gpmap) == \E i \in 1..Len(ps) : ps[i].GP \notin DOMAIN gpmap

RECURSIVE CountByAge(_, _, _, _, _)
\* the loop over people of aggregateByAgeThenCondition, from person i on
CountByAge(ps, conditions, gpmap, i, ageThenCondition) ==
    IF i > Len(ps) THEN ageThenCondition
    ELSE IF gpmap[ps[i].GP].ICB # NorthCentralLondonICBCode
    THEN CountByAge(ps, conditions, gpmap, i + 1, ageThenCondition)
    ELSE LET c == conditionsToInt(ps[i], conditions)
             a == IF ps[i].Age < Len(ageThenCondition) THEN ps[i].Age
                  ELSE Len(ageThenCondition) - 1
         IN CountByAge(ps, conditions, gpmap, i + 1,
                       Increment(ageThenCondition, a, c))

aggregateByAgeThenCondition(ps, maxAge, conditions, gpmap) ==
    CountByAge(ps, conditions, gpmap, 1, Zeros(maxAge, 2 ^ Len(conditions)))

\* const maxAge = 100 of toJSON, and the literal writePopulation passes
JSONMaxAge == 100
Deciles == 10

\* the persons toJSON counts: those of a practice of the ICB
IcbPeople(ps, gpmap) ==
    {i \in 1..Len(ps) : gpmap[ps[i].GP].ICB = NorthCentralLondonICBCode}

\* the loop over people of toJSON aborts: the LSOA of the practice is not in
\* lsoas (a nil dereference), or the decile of the home is not in 1..10 (an
\* index out of range)
CountPanics(ps, lsoamap, gpmap) ==
    \/ NoPractice(ps, gpmap)
    \/ \E i \in IcbPeople(ps, gpmap) :
          \/ gpmap[ps[i].GP].LSOA \notin DOMAIN lsoamap
          \/ ps[i].Home \notin DOMAIN lsoamap
          \/ lsoamap[ps[i].Home].IMDDecile - 1 \notin 0..(Deciles - 1)

\* the tables of toJSON before its loop over people
NoCounts(n) ==
    [all |-> Zeros(1, n), byMSOA |-> Empty, byAge |-> Zeros(JSONMaxAge \div 10, n),
     byIMDDecile |-> Zeros(Deciles, n), skippedNoMSOA |-> 0]

\* b.Counts[c]++ of the entry of the MSOA, created on first use
IncrementMSOA(byMSOA, msoa, n, c) ==
    LET b == IF msoa.Code \in DOMAIN byMSOA THEN byMSOA[msoa.Code]
             ELSE [Value |-> msoa.Name, Counts |-> [k \in 1..n |-> 0]]
    IN (msoa.Code :> [b EXCEPT !.Counts[c + 1] = @ + 1]) @@ byMSOA

RECURSIVE Count(_, _, _, _, _, _)
\* the loop over people of toJSON, from person i on
Count(conditions, ps, lsoamap, gpmap, i, t) ==
    IF i > Len(ps) THEN t
    ELSE IF gpmap[ps[i].GP].ICB # NorthCentralLondonICBCode
    THEN Count(conditions, ps, lsoamap, gpmap, i + 1, t)
    ELSE LET p == ps[i]
             n == 2 ^ Len(conditions)
             c == conditionsToInt(p, conditions)
             code == lsoamap[gpmap[p.GP].LSOA].MSOACode
             a == IF p.Age \div 10 < Len(t.byAge) THEN p.Age \div 10
                  ELSE Len(t.byAge) - 1
         IN Count(conditions, ps, lsoamap, gpmap, i + 1,
                  [all |-> Increment(t.all, 0, c),
                   byMSOA |-> IF code \in DOMAIN msoas
                              THEN IncrementMSOA(t.byMSOA, msoas[code], n, c)
                              ELSE t.byMSOA,
                   byAge |-> Increment(t.byAge, a, c),
                   byIMDDecile |->
                       Increment(t.byIMDDecile, lsoamap[p.Home].IMDDecile - 1, c),
                   skippedNoMSOA |-> IF code \in DOMAIN msoas THEN t.skippedNoMSOA
                                     ELSE t.skippedNoMSOA + 1])

RECURSIVE TotalOver_AnyICB(_, _, _)
\* the sum of a field over all the practices among codes, whatever their ICB
TotalOver_AnyICB(gpmap, field, codes) ==
    IF codes = {} THEN 0
    ELSE LET code == CHOOSE c \in codes : TRUE
         IN gpmap[code][field] + TotalOver_AnyICB(gpmap, field, codes \ {code})

RECURSIVE TotalOver(_, _, _)
\* the sum of a field over the practices of the ICB among codes
TotalOver(gpmap, field, codes) ==
    IF codes = {} THEN 0
    ELSE LET code == CHOOSE c \in codes : TRUE
         IN (IF gpmap[code].ICB = NorthCentralLondonICBCode
             THEN gpmap[code][field] ELSE 0)
            + TotalOver(gpmap, field, codes \ {code})

\* the PopulationJSON of toJSON: the totals, the breakdowns by key (the one
\* of the MSOAs as the set of its entries, which sort.Sort orders by name)
\* and the table by age. The names of the conditions and the estimates of
\* appointments, which no count depends on, are left out.
toJSON(conditions, ps, lsoamap, gpmap) ==
    LET t == Count(conditions, ps, lsoamap, gpmap, 1, NoCounts(2 ^ Len(conditions)))
    IN [TotalListSize |-> TotalOver(gpmap, "ListSize", DOMAIN gpmap),
        TotalSimulatedListSize |-> TotalOver(gpmap, "SimulatedListSize", DOMAIN gpmap),
        Breakdowns |->
            <<[Key |-> "all", ByValue |-> t.all],
              [Key |-> "msoa", ByValue |-> {t.byMSOA[m] : m \in DOMAIN t.byMSOA}],
              [Key |-> "age", ByValue |-> t.byAge],
              [Key |-> "imd", ByValue |-> t.byIMDDecile]>>,
        ByAgeThenCondition |->
            aggregateByAgeThenCondition(ps, JSONMaxAge, conditions, gpmap)]

\* writePopulationByAge(aggregateByAgeThenCondition(people, 100, ...))
WritePopulationByAge ==
    /\ pc = "writePopulationByAge"
    /\ IF NoPractice(people, gps)
       THEN /\ pc' = "panicked"
            /\ UNCHANGED byAge
       ELSE /\ pc' = "toJSON"
            /\ byAge' = aggregateByAgeThenCondition(people, JSONMaxAge, ConditionList, gps)
    /\ UNCHANGED <<gps, lsoas, homes, nearbyGPs, people, noPossibleGPs, joint,
                   byPractice, loop, output, json, args, goroutines, result>>

\* json.Marshal(toJSON(conditions, people, lsoas, msoas, gps)) and the write
\* of population.json
WritePopulationJSON ==
    /\ pc = "toJSON"
    /\ IF CountPanics(people, lsoas, gps)
       THEN /\ pc' = "panicked"
            /\ UNCHANGED json
       ELSE /\ pc' = "done"
            /\ json' = toJSON(ConditionList, people, lsoas, gps)
    /\ UNCHANGED <<gps, lsoas, homes, nearbyGPs, people, noPossibleGPs, joint,
                   byPractice, loop, output, byAge, args, goroutines, result>>

Next ==
    \/ StartHome
    \/ UnknownHome
    \/ CreatePerson
    \/ ReturnPopulation
    \/ DeriveConditionals
    \/ GroupByGP
    \/ EstimateBias
    \/ EstimateReturn
    \/ AssignNextPractice
    \/ AssignPerson
    \/ AssignReturn
    \/ WriteGPs
    \/ WritePopulationByAge
    \/ WritePopulationJSON

Spec == Init /\ [][Next]_vars

-----------------------------------------------------------------------------
(* Properties of buildPopulation *)

\* buildPopulation has returned its people to writePopulation
Built == pc \notin {"buildPopulation", "failed"}

\* the indices of the persons with the given GP
AssignedTo(code) == {i \in 1..Len(people) : people[i].GP = code}

\* the indices of the persons with the given Home
LivingAt(home) == {i \in 1..Len(people) : people[i].Home = home}

RECURSIVE TotalListSize(_)
\* the sum of SimulatedListSize over the given practices
TotalListSize(codes) ==
    IF codes = {} THEN 0
    ELSE LET code == CHOOSE c \in codes : TRUE
         IN  gps[code].SimulatedListSize + TotalListSize(codes \ {code})

\* C1: while buildPopulation runs, after every person it creates, and after
\* it has returned the people, the SimulatedListSize of every practice is the
\* number of Persons created so far whose GP is that practice's code.
C1_ListSizeCountsAssigned ==
    pc # "failed" =>
        \A code \in DOMAIN gps :
            gps[code].SimulatedListSize = Cardinality(AssignedTo(code))

\* buildPopulation has created two persons and has not returned: one person
\* was given a practice and one was given none
C1_Witness ==
    /\ pc = "buildPopulation"
    /\ Len(people) = 2
    /\ gps["g2"].SimulatedListSize = 1
    /\ AssignedTo("g2") # {}
    /\ AssignedTo(GPPracticeCodeInvalid) # {}

\* C2: once buildPopulation has returned, every home has exactly
\* sum(PersonsByAge) Persons, which are those of the home that added 1 to the
\* SimulatedListSize of a practice plus those of the home with the invalid
\* code; and the SimulatedListSize of all practices plus noPossibleGPs is the
\* number of Persons.
C2_EveryResidentCreatedOnce ==
    Built =>
        /\ \A home \in homes :
              /\ Cardinality(LivingAt(home)) = sum(lsoas[home].PersonsByAge)
              /\ Cardinality(LivingAt(home)) =
                    Cardinality({i \in LivingAt(home) : people[i].GP \in DOMAIN gps})
                    + Cardinality(LivingAt(home) \cap AssignedTo(GPPracticeCodeInvalid))
        /\ \A i \in 1..Len(people) : people[i].Home \in homes
        /\ TotalListSize(DOMAIN gps) + noPossibleGPs = Len(people)
        /\ noPossibleGPs = Cardinality(AssignedTo(GPPracticeCodeInvalid))

\* buildPopulation has returned two persons from two homes, one of them
\* without a practice
C2_Witness ==
    /\ pc = "buildJointPrevalence"
    /\ Len(people) = 2
    /\ LivingAt("h1") # {}
    /\ LivingAt("h2") # {}
    /\ noPossibleGPs = 1
    /\ TotalListSize(DOMAIN gps) = 1

\* C3: a run that has a Person with the invalid code (and no Person the
\* lookups cannot serve) never panics.
C3_InvalidCodeDoesNotAbort ==
    (/\ AssignedTo(GPPracticeCodeInvalid) # {}
     /\ \A i \in 1..Len(people) : people[i].Sex # Other)
        => pc # "panicked"

-----------------------------------------------------------------------------
(* Properties of estimateGPPracticeConditionBias *)

\* the practices the calls of estimateGPPracticeConditionBias have processed
\* for the condition so far
EstimatedFor(condition) ==
    IF pc = "estimateBias"
    THEN IF condition + 1 < loop.i THEN DOMAIN byPractice
         ELSE IF condition + 1 = loop.i THEN DOMAIN byPractice \ loop.todo
         ELSE {}
    ELSE IF pc \in {"assignConditions", "writeGPs", "writePopulationByAge", "toJSON",
                     "done"}
    THEN DOMAIN byPractice
    ELSE {}

RECURSIVE LookupSum(_, _)
\* the sum of the marginal lookups of the condition over the given persons
LookupSum(condition, persons) ==
    IF persons = {} THEN Zero
    ELSE LET i == CHOOSE j \in persons : TRUE
         IN  RAdd(Prevalence(AllPrevalences[condition], people[i].Sex, people[i].Age),
                  LookupSum(condition, persons \ {i}))

\* C4: a practice with at least one person and a reported prevalence above 0
\* that the estimator has processed has bias = count * reported / expected,
\* and so bias * expected = count * reported, where expected, the sum of the
\* marginal lookups over the persons with that GP, is above 0; it has bias 1
\* where expected is 0.
C4_BiasMatchesReported ==
    \A condition \in Conditions :
    \A code \in EstimatedFor(condition) \cap DOMAIN gps :
        LET count == Cardinality(AssignedTo(code))
            reported == gps[code].ConditionPrevalence[condition]
            expected == LookupSum(condition, AssignedTo(code))
            bias == gps[code].ConditionBias[condition]
        IN  (count >= 1 /\ RLess(Zero, reported)) =>
                IF RLess(Zero, expected)
                THEN /\ bias = RDiv(RMul(FromInt(count), reported), expected)
                     /\ RMul(bias, expected) = RMul(FromInt(count), reported)
                ELSE expected = Zero /\ bias = One

\* the estimator has corrected the hypertension bias of a practice with a
\* person to a value other than 1, and has left the diabetes bias of a
\* practice whose persons have no expected diagnoses at 1
C4_Witness ==
    /\ pc = "estimateBias"
    /\ \E code \in EstimatedFor(QOFConditionHypertension) \cap DOMAIN gps :
          /\ AssignedTo(code) # {}
          /\ RLess(Zero, gps[code].ConditionPrevalence[QOFConditionHypertension])
          /\ RLess(Zero, LookupSum(QOFConditionHypertension, AssignedTo(code)))
          /\ gps[code].ConditionBias[QOFConditionHypertension] # One
    /\ \E code \in EstimatedFor(QOFConditionDiabetes) \cap DOMAIN gps :
          /\ AssignedTo(code) # {}
          /\ RLess(Zero, gps[code].ConditionPrevalence[QOFConditionDiabetes])
          /\ LookupSum(QOFConditionDiabetes, AssignedTo(code)) = Zero
          /\ gps[code].ConditionBias[QOFConditionDiabetes] = One

\* C5: a practice the estimator has processed for a condition whose reported
\* prevalence is 0 has bias 1 for that condition.
C5_NoReportNoCorrection ==
    \A condition \in Conditions :
    \A code \in EstimatedFor(condition) \cap DOMAIN gps :
        gps[code].ConditionPrevalence[condition] = Zero
            => gps[code].ConditionBias[condition] = One

\* the estimator has processed, for COPD, a practice that reports no COPD
\* prevalence and has a person with a positive COPD lookup
C5_Witness ==
    /\ pc = "estimateBias"
    /\ \E code \in EstimatedFor(QOFConditionCOPD) \cap DOMAIN gps :
          /\ gps[code].ConditionPrevalence[QOFConditionCOPD] = Zero
          /\ RLess(Zero, LookupSum(QOFConditionCOPD, AssignedTo(code)))
          /\ gps[code].ConditionBias[QOFConditionCOPD] = One

\* C6: the row of gps.csv of a practice no person was assigned to has the
\* bias 1.000000 for every condition.
C6_UnassignedBiasIsOne ==
    pc = "done" =>
        \A code \in DOMAIN output :
            gps[code].SimulatedListSize = 0 =>
                \A condition \in Conditions :
                    output[code].bias[condition] = Sprintf(One)

-----------------------------------------------------------------------------
(* Properties of assignConditions *)

\* C7: every value assignConditions compares a sample with, for the person
\* it is about to draw for, under every shuffle and every outcome of the
\* earlier draws, is in [0, 1] (stated of the values that are numbers: a
\* value that is no number is left aside here).
C7_DrawValuesInUnit ==
    (pc = "assignConditions" /\ ~PracticeDone) =>
        LET idx == byPractice[loop.cur][loop.i]
        IN  \A perm \in ShuffleOrders :
            \A o \in Chain(people[idx], loop.cur, perm, 1, people[idx].Conditions, <<>>) :
            \A k \in 1..Len(o.values) :
                IsFinite(o.values[k]) => InUnit(o.values[k])

-----------------------------------------------------------------------------
(* Properties of the lookups of a run *)

\* C11: when bias estimation starts, the lookup of every marginal table for
\* the sex and age of every sampled Person (male, female or other) returns a
\* probability in [0, 1] and does not panic.
C11_LookupServesEverySex ==
    pc = "estimateBias" =>
        \A i \in 1..Len(people) : \A condition \in Conditions :
            LET v == Prevalence(AllPrevalences[condition], people[i].Sex, people[i].Age)
            IN  ~IsPanic(v) /\ InUnit(v)


\* the tables the lookups of a run use: the marginals, the joint tables and,
\* once derived, the conditional tables
UsedTables ==
    {AllPrevalences[c] : c \in DOMAIN AllPrevalences}
    \cup {AllComorbidities[pair] : pair \in DOMAIN AllComorbidities}
    \cup {joint[key] : key \in DOMAIN joint}

\* an age far above every age of a census
FarAge == 1000

\* C12: in every table a run uses, an age equal to the End of a band that is
\* followed by another band is not in that band, is in the following band
\* and is looked up with the following band's probability; and a band with
\* End = 0 contains every age from its Begin on, however large.
C12_EndFallsIntoNextBand ==
    \A table \in UsedTables : \A sex \in {Male, Female} :
        LET bands == table[sex + 1]
        IN  \A k \in 1..Len(bands) :
                IF bands[k].AgeRange.End # 0
                THEN k < Len(bands) =>
                        /\ ~Contains(bands[k].AgeRange, bands[k].AgeRange.End)
                        /\ Contains(bands[k + 1].AgeRange, bands[k].AgeRange.End)
                        /\ Prevalence(table, sex, bands[k].AgeRange.End)
                               = bands[k + 1].Prevalence
                ELSE \A age \in (bands[k].AgeRange.Begin)..(bands[k].AgeRange.Begin + FarAge) :
                        Contains(bands[k].AgeRange, age)

-----------------------------------------------------------------------------
(* Properties of the draws of assignConditions *)

\* assignConditions has drawn for a person, whom result describes
Drawn ==
    /\ pc \in {"assignConditions", "writeGPs", "writePopulationByAge", "toJSON", "done"}
    /\ "perm" \in DOMAIN result

\* the lookup of the table for the person drawn for last, times the bias of
\* the person's practice for the condition
BiasedLookup(table, condition) ==
    LET person == people[result.person]
    IN  RMul(Prevalence(table, person.Sex, person.Age),
             gps[person.GP].ConditionBias[condition])

\* C15: for the person drawn for last, the value of the first position of
\* the shuffled order comes from the marginal table of perm[1], and the value
\* of every later position i from the table joint[perm[i], perm[i-1], b],
\* where b is what this person now holds for perm[i-1], whatever the person
\* holds for the conditions before perm[i-1].
C15_ConditionedOnPredecessor ==
    Drawn =>
        LET person == people[result.person]
            perm == result.perm
        IN  /\ Len(result.values) = Len(ConditionList)
            /\ result.values[1] = BiasedLookup(AllPrevalences[perm[1]], perm[1])
            /\ \A i \in 2..Len(perm) :
                  result.values[i] =
                      BiasedLookup(joint[<<perm[i], perm[i - 1],
                                           person.Conditions[perm[i - 1]]>>], perm[i])

\* a person has drawn the first condition present, the second absent and
\* the third present, and the tables of the second condition given the
\* first present and absent differ for this person
C15_Witness ==
    /\ Drawn
    /\ LET person == people[result.person]
           perm == result.perm
       IN  /\ person.Conditions[perm[1]]
           /\ ~person.Conditions[perm[2]]
           /\ person.Conditions[perm[3]]
           /\ BiasedLookup(joint[<<perm[2], perm[1], TRUE>>], perm[2])
                  # BiasedLookup(joint[<<perm[2], perm[1], FALSE>>], perm[2])
           /\ IsFinite(result.values[2])
           /\ IsFinite(result.values[3])


\* the persons of the practice who hold the condition
Holding(code, condition) == {i \in AssignedTo(code) : people[i].Conditions[condition]}

\* C16: while assignConditions runs, after each person, and after it has
\* returned, SimulatedConditionCounts[condition] of every practice is the
\* number of persons with that GP who hold the condition, and so is at most
\* the practice's SimulatedListSize.
C16_CountsMatchHolders ==
    pc \in {"assignConditions", "writeGPs", "writePopulationByAge", "toJSON", "done"} =>
        \A code \in DOMAIN gps : \A condition \in Conditions :
            /\ gps[code].SimulatedConditionCounts[condition]
                   = Cardinality(Holding(code, condition))
            /\ gps[code].SimulatedConditionCounts[condition]
                   <= gps[code].SimulatedListSize

\* assignConditions has returned; a practice has two persons of whom exactly
\* one holds hypertension
C16_Witness ==
    /\ pc = "writeGPs"
    /\ \E code \in DOMAIN gps :
          /\ gps[code].SimulatedListSize = 2
          /\ gps[code].SimulatedConditionCounts[QOFConditionHypertension] = 1
          /\ Cardinality(Holding(code, QOFConditionHypertension)) = 1

-----------------------------------------------------------------------------
(* Specification of one call of assignConditions with a joint map that may  *)
(* lack a key: three males of the first band, two with practice g1 and one  *)
(* with g2, every bias 1                                                    *)

\* a conditional table: 1/2 given the other condition present, 1/4 given it
\* absent, for both sexes and bands
ConditionalTable(present) ==
    LET p == IF present THEN Half ELSE Quarter
    IN  <<BandList(<<LowBand, TopBand>>, <<p, p>>),
          BandList(<<LowBand, TopBand>>, <<p, p>>)>>

\* the joint maps of the call: the complete one, and it without one key
JointMaps ==
    {[key \in keys |-> ConditionalTable(key[3])] :
        keys \in {JointKeys} \cup {JointKeys \ {key} : key \in JointKeys}}

\* a practice with the given number of persons and bias 1 for every condition
PracticeWith(code, size) ==
    [NewGPPractice(code, NorthCentralLondonICBCode, 500, 10000, NotReported)
        EXCEPT !.SimulatedListSize = size,
               !.ConditionBias = [c \in Conditions |-> One]]

InitAssign ==
    /\ pc = "assignConditions"
    /\ gps = ("g1" :> PracticeWith("g1", 2)) @@ ("g2" :> PracticeWith("g2", 1))
    /\ lsoas = ("h1" :> Census({<<Male, 1>>}, 0))
    /\ homes = {"h1"}
    /\ nearbyGPs = ("h1" :> <<"g1", "g2">>)
    /\ people = <<NewPerson(0, Male, 1, "h1", "g1"), NewPerson(1, Male, 1, "h1", "g1"),
                  NewPerson(2, Male, 1, "h1", "g2")>>
    /\ noPossibleGPs = 0
    /\ joint \in JointMaps
    /\ byPractice = ("g1" :> <<1, 2>>) @@ ("g2" :> <<3>>)
    /\ loop = [todo |-> {"g1", "g2"}, cur |-> "-", i |-> 0]
    /\ output = Empty
    /\ byAge = Empty
    /\ json = Empty
    /\ goroutines = Empty
    /\ args = Empty
    /\ result = Zero

NextAssign ==
    \/ AssignNextPractice
    \/ AssignPerson
    \/ AssignReturn

SpecAssign == InitAssign /\ [][NextAssign]_vars

\* the key of the table of position i of the shuffled order of the person
\* drawn for last
KeyAt(i) ==
    <<result.perm[i], result.perm[i - 1],
      people[result.person].Conditions[result.perm[i - 1]]>>

\* the persons assignConditions has not drawn for yet
NotYetDrawn ==
    {byPractice[loop.cur][j] : j \in (loop.i + 1)..Len(byPractice[loop.cur])}
    \cup UNION {{byPractice[code][j] : j \in 1..Len(byPractice[code])} : code \in loop.todo}

\* C17: for the person drawn for last, every table used was in the joint
\* map; the draws stopped early exactly when the run panicked, and then the
\* key of the next position is not in the joint map, the conditions of that
\* and the later positions were not drawn (no default is used), the person
\* was not counted, and no person after that one has any condition.
C17_MissingTableAborts ==
    "perm" \in DOMAIN result =>
        LET person == people[result.person]
            perm == result.perm
            n == Len(result.values)
        IN  /\ \A i \in 2..n : KeyAt(i) \in DOMAIN joint
            /\ pc = "panicked" <=> n < Len(perm)
            /\ pc = "panicked" =>
                  /\ n >= 1
                  /\ KeyAt(n + 1) \notin DOMAIN joint
                  /\ \A i \in (n + 1)..Len(perm) : ~person.Conditions[perm[i]]
                  /\ \A i \in NotYetDrawn : people[i].Conditions = NoConditions
                  /\ \A condition \in Conditions :
                        gps[person.GP].SimulatedConditionCounts[condition]
                            = Cardinality(Holding(person.GP, condition) \ {result.person})

\* the run has panicked at the second position of the first person of g1,
\* who holds the first condition, with two persons not yet drawn for
C17_Witness ==
    /\ pc = "panicked"
    /\ Len(result.values) = 1
    /\ people[result.person].Conditions[result.perm[1]]
    /\ Cardinality(NotYetDrawn) = 2

-----------------------------------------------------------------------------
(* Specification of one call of buildJointPrevalence for a pair of which a  *)
(* table may be missing: AllPrevalences[condition] and AllComorbidities[..] *)
(* of a missing key are nil tables                                          *)

InitMissing ==
    /\ pc = "derive"
    /\ NoRun
    /\ \E c1 \in {Empty, DiabetesPrevalence}, c2 \in {Empty, HypertensionPrevalence},
          c1c2 \in {Empty, DiabetesAndHypertensionPrevalence},
          population \in Populations :
           args = [c1 |-> c1, c2 |-> c2, c1c2 |-> c1c2, population |-> population]
    /\ result = Zero

SpecMissing == InitMissing /\ [][NextJoint]_vars

\* C18: a call of buildJointPrevalence for which the marginal table of A,
\* the marginal table of B or the joint table is missing panics, whatever
\* the population, and returns no derived tables.
C18_MissingTableIsFatal ==
    (pc = "derived" /\ Empty \in {args.c1, args.c2, args.c1c2}) => result.panic

-----------------------------------------------------------------------------
(* Properties of writePopulation *)

\* the stages of writePopulation from buildPopulation on, in program order
Stages ==
    <<"buildPopulation", "buildJointPrevalence", "groupByGP", "estimateBias",
      "assignConditions", "writeGPs", "writePopulationByAge", "toJSON", "done">>

Rank(stage) == CHOOSE k \in 1..Len(Stages) : Stages[k] = stage

\* the run has ended with an error or a panic
Aborted == {"failed", "panicked"}

\* every home has all the persons its census counts
PopulationComplete ==
    \A home \in homes :
        /\ home \in DOMAIN lsoas
        /\ Cardinality(LivingAt(home)) = sum(lsoas[home].PersonsByAge)

\* C19: every step of a run stays in its stage or enters the next one in
\* program order. buildPopulation is left only with every home sampled, and
\* no person is created afterwards; the conditional tables change only in the
\* derivation loop and the biases only in the estimator, which is left for
\* assignConditions only after its call for the last condition has processed
\* every practice, with all twelve tables derived; conditions change only in
\* assignConditions, which is left for the outputs (gps.csv, the table by age,
\* toJSON) only after every person of every practice.
C19_StagesInOrder ==
    [][/\ pc' \notin Aborted =>
             /\ Rank(pc') \in {Rank(pc), Rank(pc) + 1}
             /\ (pc = "buildPopulation" /\ pc' # pc) =>
                    HomeDone /\ loop.todo = {} /\ PopulationComplete
             /\ (pc = "estimateBias" /\ pc' # pc) =>
                    /\ loop.i = Len(ConditionList)
                    /\ loop.todo = {}
                    /\ DOMAIN joint = JointKeys
             /\ (pc = "assignConditions" /\ pc' # pc) =>
                    PracticeDone /\ loop.todo = {}
       /\ pc # "buildPopulation" => Len(people') = Len(people)
       /\ pc # "buildJointPrevalence" => joint' = joint
       /\ pc # "estimateBias" =>
             \A code \in DOMAIN gps : gps'[code].ConditionBias = gps[code].ConditionBias
       /\ pc # "assignConditions" =>
             \A i \in 1..Len(people) :
                 i <= Len(people') => people'[i].Conditions = people[i].Conditions
      ]_vars

\* a run has passed every stage: two persons of a practice of the ICB with a
\* corrected bias, one of them with a condition, are in population.json
C19_Witness ==
    /\ pc = "done"
    /\ json.TotalSimulatedListSize = 2
    /\ \E code \in IcbPractices :
          /\ gps[code].ConditionBias[QOFConditionDiabetes] \notin {Zero, One}
          /\ gps[code].SimulatedConditionCounts[QOFConditionDiabetes] = 1
    /\ DOMAIN joint = JointKeys

-----------------------------------------------------------------------------
(* Specification of repeated calls of aggregateByAgeThenCondition and       *)
(* toJSON on the state a run has left: up to two persons of the practices   *)
(* g1 (of the ICB, in h1) and g2 (of another ICB)                           *)

MaxCalls == 2

FinalAges == {9, 10, 100}

FinalConditions ==
    {NoConditions,
     [c \in Conditions |-> c # QOFConditionHypertension],
     [c \in Conditions |-> TRUE]}

\* the persons a run can leave, but for the ID
FinalPersons ==
    {[NewPerson(0, Male, age, home, gp) EXCEPT !.Conditions = conds] :
        age \in FinalAges, home \in {"h1", "h2"}, gp \in GPCodes, conds \in FinalConditions}

\* the people of a run: the ID of a person is its index
FinalPeople ==
    {<<>>} \cup {<<p>> : p \in FinalPersons}
    \cup {<<p, [q EXCEPT !.ID = 1]>> : p \in FinalPersons, q \in FinalPersons}

\* the practice as buildPopulation and assignConditions leave it for ps
FinalPractice(code, icb, location, ps) ==
    [NewGPPractice(code, icb, location, 10000, NotReported)
        EXCEPT !.ConditionBias = [c \in Conditions |-> One],
               !.SimulatedListSize = Cardinality({i \in 1..Len(ps) : ps[i].GP = code}),
               !.SimulatedConditionCounts =
                    [c \in Conditions |->
                        Cardinality({i \in 1..Len(ps) :
                                        ps[i].GP = code /\ ps[i].Conditions[c]})]]

InitAggregation ==
    /\ pc = "aggregation"
    /\ people \in FinalPeople
    /\ gps = ("g1" :> FinalPractice("g1", NorthCentralLondonICBCode, 500, people))
             @@ ("g2" :> FinalPractice("g2", "QXX", 3000, people))
    /\ \E decile \in {0, 10} :
           lsoas = ("h1" :> Filled(Census({}, 0), "m1", 1))
                   @@ ("h2" :> Filled(Census({}, 2000), "", decile))
    /\ homes = {"h1", "h2"}
    /\ nearbyGPs = ("h1" :> <<"g1", "g2">>) @@ ("h2" :> <<"g1">>)
    /\ noPossibleGPs = 0
    /\ joint = Empty
    /\ byPractice = Empty
    /\ loop = [todo |-> {}, cur |-> "-", i |-> 0]
    /\ output = Empty
    /\ byAge = Empty
    /\ json = Empty
    /\ goroutines = Empty
    /\ args = Empty
    /\ result = <<>>

\* a call of aggregateByAgeThenCondition(people, 100, conditions, gps):
\* result keeps what every call returned
CallAggregateByAgeThenCondition ==
    /\ pc = "aggregation"
    /\ Len(result) < MaxCalls
    /\ IF NoPractice(people, gps)
       THEN /\ pc' = "panicked"
            /\ result' = result
       ELSE /\ pc' = pc
            /\ result' = Append(result,
                   [fn |-> "aggregateByAgeThenCondition",
                    value |-> aggregateByAgeThenCondition(people, JSONMaxAge,
                                                          ConditionList, gps)])
    /\ UNCHANGED <<run, args>>

\* the totals of this call on top of those of the call before, as if calls
\* shared one PopulationJSON
CallToJSON_Accumulating ==
    /\ pc = "aggregation"
    /\ Len(result) < MaxCalls
    /\ ~CountPanics(people, lsoas, gps)
    /\ LET value == toJSON(ConditionList, people, lsoas, gps)
           before == IF result # <<>> /\ result[Len(result)].fn = "toJSON"
                     THEN result[Len(result)].value.TotalListSize ELSE 0
       IN result' = Append(result,
              [fn |-> "toJSON",
               value |-> [value EXCEPT !.TotalListSize = @ + before]])
    /\ UNCHANGED <<pc, run, args>>

\* a call of toJSON(conditions, people, lsoas, msoas, gps)
CallToJSON ==
    /\ pc = "aggregation"
    /\ Len(result) < MaxCalls
    /\ IF CountPanics(people, lsoas, gps)
       THEN /\ pc' = "panicked"
            /\ result' = result
       ELSE /\ pc' = pc
            /\ result' = Append(result,
                   [fn |-> "toJSON",
                    value |-> toJSON(ConditionList, people, lsoas, gps)])
    /\ UNCHANGED <<run, args>>

NextAggregation ==
    \/ CallAggregateByAgeThenCondition
    \/ CallToJSON

SpecAggregation == InitAggregation /\ [][NextAggregation]_vars

-----------------------------------------------------------------------------
(* Properties of toJSON *)

\* the bitmask with bit j set iff the person holds conditions[j]
Bitmask(p) ==
    (IF p.Conditions[ConditionList[1]] THEN 1 ELSE 0)
    + (IF p.Conditions[ConditionList[2]] THEN 2 ELSE 0)
    + (IF p.Conditions[ConditionList[3]] THEN 4 ELSE 0)

\* the number of persons of the ICB's practices with the bitmask c among
\* those in S
CountedIn(S, c) ==
    Cardinality({i \in S \cap IcbPeople(people, gps) : Bitmask(people[i]) = c})

Bitmasks == 0..(2 ^ Len(ConditionList) - 1)

\* the counts of a PopulationJSON are those of the claim: every person of a
\* practice of the ICB once in "all", once in the age band min(age div 10, 9)
\* and once in the decile of the home, each time at the bitmask
CountsAsStated(value) ==
    \A c \in Bitmasks :
        /\ value.Breakdowns[1].ByValue[1][c + 1] = CountedIn(1..Len(people), c)
        /\ \A band \in 0..9 :
              value.Breakdowns[3].ByValue[band + 1][c + 1] =
                  CountedIn({i \in 1..Len(people) :
                                (IF people[i].Age \div 10 < 9 THEN people[i].Age \div 10
                                 ELSE 9) = band}, c)
        /\ \A decile \in 1..10 :
              value.Breakdowns[4].ByValue[decile][c + 1] =
                  CountedIn({i \in 1..Len(people) :
                                lsoas[people[i].Home].IMDDecile = decile}, c)
        /\ SumInts([b \in 1..10 |-> value.Breakdowns[3].ByValue[b][c + 1]], 1)
               = value.Breakdowns[1].ByValue[1][c + 1]
        /\ SumInts([d \in 1..10 |-> value.Breakdowns[4].ByValue[d][c + 1]], 1)
               = value.Breakdowns[1].ByValue[1][c + 1]

\* C21: every call of toJSON returns, and counts every person of a practice
\* of the ICB exactly once in the "all" bucket, once in the age band
\* min(age div 10, 9) and once in the decile breakdown, at the index of the
\* person's bitmask, and persons of other practices nowhere, so that the
\* three breakdowns have the same totals per bitmask.
C21_CountedOncePerBreakdown ==
    /\ pc # "panicked"
    /\ \A k \in 1..Len(result) :
          result[k].fn = "toJSON" => CountsAsStated(result[k].value)

\* C21, for the calls of toJSON that return
C21_CountedOnceWhenReturned ==
    \A k \in 1..Len(result) :
        result[k].fn = "toJSON" => CountsAsStated(result[k].value)

-----------------------------------------------------------------------------
(* Properties of the identifiers of buildPopulation *)

\* C22: while buildPopulation runs and after it has returned, the k-th
\* person created has the ID k - 1, whatever the homes the persons live in:
\* the IDs strictly increase in creation order, are unique and are exactly
\* 0..N-1.
C22_IDsCountCreation ==
    /\ \A k \in 1..Len(people) : people[k].ID = k - 1
    /\ \A i \in 1..Len(people) : \A j \in 1..Len(people) :
          i < j => people[i].ID < people[j].ID
    /\ {people[k].ID : k \in 1..Len(people)} = 0..(Len(people) - 1)

\* buildPopulation has returned two persons of two homes
C22_Witness ==
    /\ Built
    /\ Len(people) = 2
    /\ people[1].Home # people[2].Home
    /\ people[2].ID = 1

-----------------------------------------------------------------------------
(* buildNearbyGPs: the producer (the calling goroutine), cores workers      *)
(* running f, the unbuffered channel c, the buffered channel done and the   *)
(* mutex lock. nearbyGPs is the shared map nearby; args.found[code] are the *)
(* region codes w.FindFeatures yields for the cap around the practice       *)

MaxCores == 2

\* invalid := s2.Point{}: the location of a practice without a known postcode
InvalidPoint == 0 - 1

Workers == 1..args.cores

\* the state of a worker before it has received a practice
Idle == [at |-> "recv", gp |-> "", k |-> 0, tmp |-> <<>>]

\* the lists of codes a lookup can yield; "" is a feature without a code
FoundLists == {<<>>, <<"h1">>, <<"h1", "h2">>, <<"">>, <<"h1", "">>}

InitNearby ==
    /\ pc = "send"
    /\ \E at2 \in {InvalidPoint, 750} :
           gps = ("g1" :> NewGPPractice("g1", NorthCentralLondonICBCode, 500, 10000,
                                        NotReported))
                 @@ ("g2" :> NewGPPractice("g2", NorthCentralLondonICBCode, at2, 10000,
                                           NotReported))
    /\ \E cores \in 1..MaxCores, f1 \in FoundLists, f2 \in FoundLists :
           /\ args = [cores |-> cores, found |-> ("g1" :> f1) @@ ("g2" :> f2)]
           /\ goroutines =
                 [closed |-> FALSE, done |-> <<>>, lock |-> 0, practices |-> 0,
                  seen |-> {}, todo |-> {"g1", "g2"}, received |-> 0, err |-> "nil",
                  handled |-> ("g1" :> {}) @@ ("g2" :> {}),
                  worker |-> [w \in 1..cores |-> Idle]]
    /\ lsoas = Empty
    /\ homes = {}
    /\ nearbyGPs = Empty
    /\ people = Empty
    /\ noPossibleGPs = 0
    /\ joint = Empty
    /\ byPractice = Empty
    /\ loop = [todo |-> {}, cur |-> "-", i |-> 0]
    /\ output = Empty
    /\ byAge = Empty
    /\ json = Empty
    /\ result = Empty

\* what no step of buildNearbyGPs changes
others ==
    <<gps, lsoas, homes, people, noPossibleGPs, joint, byPractice, loop, output,
      byAge, json, args>>

\* the worker w moves to position at
Moved(w, at) == [goroutines EXCEPT !.worker[w].at = at]

\* the mutex is taken whether or not it is held
Unlocked_Always == TRUE

\* lock.Lock() can return: the mutex is not held
Unlocked == goroutines.lock = 0

\* "c <- gp" of the producer meets "for gp := range c" of the worker w: the
\* channel has no buffer, so the send completes only with a receiver
Send(w) ==
    /\ pc = "send"
    /\ goroutines.worker[w].at = "recv"
    /\ \E code \in goroutines.todo :
          goroutines' = [goroutines EXCEPT
                            !.todo = @ \ {code},
                            !.handled[code] = @ \cup {w},
                            !.worker[w] = [at |-> "next", gp |-> code, k |-> 1,
                                           tmp |-> <<>>]]
    /\ UNCHANGED <<pc, nearbyGPs, result, others>>

\* close(c) after the last send
CloseChannel ==
    /\ pc = "send"
    /\ goroutines.todo = {}
    /\ pc' = "collect"
    /\ goroutines' = [goroutines EXCEPT !.closed = TRUE]
    /\ UNCHANGED <<nearbyGPs, result, others>>

\* the range over the closed channel ends: done <- nil
ReceiveClosed(w) ==
    /\ goroutines.worker[w].at = "recv"
    /\ goroutines.closed
    /\ Len(goroutines.done) < 2 * args.cores
    /\ goroutines' = [goroutines EXCEPT !.worker[w].at = "exited",
                                        !.done = Append(@, "nil")]
    /\ UNCHANGED <<pc, nearbyGPs, result, others>>

\* lsoas.Next() for the practice of the worker: the loop ends (also for a
\* practice without a location, which is not looked up), a feature has no
\* code (done <- error, return), or the feature has a code
NextFeature(w) ==
    LET me == goroutines.worker[w]
        found == IF gps[me.gp].Location # InvalidPoint THEN args.found[me.gp]
                 ELSE <<>>
    IN  /\ me.at = "next"
        /\ IF me.k > Len(found)
           THEN goroutines' = Moved(w, "lockPractices")
           ELSE IF found[me.k] = ""
           THEN /\ Len(goroutines.done) < 2 * args.cores
                /\ goroutines' = [goroutines EXCEPT !.worker[w].at = "exited",
                                                    !.done = Append(@, "error")]
           ELSE goroutines' = Moved(w, "lock")
        /\ UNCHANGED <<pc, nearbyGPs, result, others>>

\* lock.Lock() before the append
Lock(w) ==
    /\ goroutines.worker[w].at = "lock"
    /\ Unlocked
    /\ goroutines' = [goroutines EXCEPT !.lock = w, !.worker[w].at = "read"]
    /\ UNCHANGED <<pc, nearbyGPs, result, others>>

\* the operand nearby[code] of the append
ReadNearby(w) ==
    LET me == goroutines.worker[w]
    IN  /\ me.at = "read"
        /\ goroutines' = [goroutines EXCEPT
                             !.worker[w].at = "append",
                             !.worker[w].tmp =
                                 TableOf(nearbyGPs, args.found[me.gp][me.k])]
        /\ UNCHANGED <<pc, nearbyGPs, result, others>>

\* nearby[code] = append(..., gp.Code); seen[lsoas.FeatureID()] = struct{}{}
AppendNearby(w) ==
    LET me == goroutines.worker[w]
        code == args.found[me.gp][me.k]
    IN  /\ me.at = "append"
        /\ nearbyGPs' = (code :> Append(me.tmp, me.gp)) @@ nearbyGPs
        /\ goroutines' = [goroutines EXCEPT !.worker[w].at = "unlock",
                                            !.seen = @ \cup {code}]
        /\ UNCHANGED <<pc, result, others>>

\* lock.Unlock(), and on to the next feature
Unlock(w) ==
    /\ goroutines.worker[w].at = "unlock"
    /\ goroutines' = [goroutines EXCEPT !.lock = 0,
                                        !.worker[w].at = "next",
                                        !.worker[w].k = @ + 1]
    /\ UNCHANGED <<pc, nearbyGPs, result, others>>

\* lock.Lock() before practices++
LockPractices(w) ==
    /\ goroutines.worker[w].at = "lockPractices"
    /\ Unlocked
    /\ goroutines' = [goroutines EXCEPT !.lock = w, !.worker[w].at = "count"]
    /\ UNCHANGED <<pc, nearbyGPs, result, others>>

\* practices++
CountPractice(w) ==
    /\ goroutines.worker[w].at = "count"
    /\ goroutines' = [goroutines EXCEPT !.practices = @ + 1,
                                        !.worker[w].at = "unlockPractices"]
    /\ UNCHANGED <<pc, nearbyGPs, result, others>>

\* lock.Unlock(), and back to the range over c
UnlockPractices(w) ==
    /\ goroutines.worker[w].at = "unlockPractices"
    /\ goroutines' = [goroutines EXCEPT !.lock = 0, !.worker[w] = Idle]
    /\ UNCHANGED <<pc, nearbyGPs, result, others>>

\* "e := <-done" of the loop that receives cores times
Collect ==
    /\ pc = "collect"
    /\ goroutines.received < args.cores
    /\ goroutines.done # <<>>
    /\ goroutines' = [goroutines EXCEPT
                         !.done = Tail(@),
                         !.received = @ + 1,
                         !.err = IF Head(goroutines.done) # "nil"
                                 THEN Head(goroutines.done) ELSE @]
    /\ UNCHANGED <<pc, nearbyGPs, result, others>>

\* return nearby, err
ReturnNearby ==
    /\ pc = "collect"
    /\ goroutines.received = args.cores
    /\ pc' = "returned"
    /\ result' = [nearby |-> nearbyGPs, err |-> goroutines.err,
                  practices |-> goroutines.practices]
    /\ UNCHANGED <<goroutines, nearbyGPs, others>>

\* a step of the worker w
Worker(w) ==
    \/ ReceiveClosed(w)
    \/ NextFeature(w)
    \/ Lock(w)
    \/ ReadNearby(w)
    \/ AppendNearby(w)
    \/ Unlock(w)
    \/ LockPractices(w)
    \/ CountPractice(w)
    \/ UnlockPractices(w)

NextNearby ==
    \/ \E w \in Workers : Send(w)
    \/ CloseChannel
    \/ \E w \in Workers : Worker(w)
    \/ Collect
    \/ ReturnNearby

SpecNearby == InitNearby /\ [][NextNearby]_vars

-----------------------------------------------------------------------------
(* Properties of buildNearbyGPs *)

\* the codes the lookup of the practice yields; a practice without a
\* location is not looked up
Looked(code) == IF gps[code].Location # InvalidPoint THEN args.found[code] ELSE <<>>

\* no lookup yields a feature without a code
NoEmptyCode ==
    \A code \in DOMAIN gps : \A k \in 1..Len(Looked(code)) : Looked(code)[k] # ""

\* the number of positions of the sequence that hold x
Occurrences(xs, x) == Cardinality({k \in 1..Len(xs) : xs[k] = x})

\* the positions of a worker between lock.Lock() and lock.Unlock()
Critical == {"read", "append", "unlock", "count", "unlockPractices"}

\* C23: when no lookup yields an empty code, no practice is received by two
\* workers, a worker that reads or writes nearby, seen or practices holds the
\* mutex, and when buildNearbyGPs has returned every practice was received by
\* exactly one worker, practices is the number of practices, there is no
\* error, and nearby[region] holds a practice as often as the lookup of the
\* practice yielded the region, and holds nothing else.
C23_ExclusiveAndComplete ==
    NoEmptyCode =>
        /\ \A code \in DOMAIN gps : Cardinality(goroutines.handled[code]) <= 1
        /\ \A w \in Workers :
              goroutines.worker[w].at \in Critical => goroutines.lock = w
        /\ pc = "returned" =>
              /\ \A code \in DOMAIN gps : Cardinality(goroutines.handled[code]) = 1
              /\ result.practices = Cardinality(DOMAIN gps)
              /\ result.err = "nil"
              /\ \A region \in {"h1", "h2"} : \A code \in DOMAIN gps :
                    Occurrences(TableOf(result.nearby, region), code)
                        = Occurrences(Looked(code), region)
              /\ DOMAIN result.nearby =
                    UNION {{Looked(code)[k] : k \in 1..Len(Looked(code))} :
                              code \in DOMAIN gps}

\* buildNearbyGPs has returned with two workers, each of which received one
\* of two practices whose lookups both yielded h1
C23_Witness ==
    /\ pc = "returned"
    /\ NoEmptyCode
    /\ args.cores = 2
    /\ goroutines.handled["g1"] # goroutines.handled["g2"]
    /\ Len(TableOf(result.nearby, "h1")) = 2
    /\ Len(TableOf(result.nearby, "h2")) = 1

-----------------------------------------------------------------------------
(* The frames of estimateGPPracticeConditionBias and assignConditions *)

\* what neither function touches
Inputs == <<lsoas, homes, nearbyGPs, noPossibleGPs, joint, byPractice>>

\* C24: a step of estimateGPPracticeConditionBias changes no person and, of
\* a practice, nothing but ConditionBias of the condition of the call; a
\* step of assignConditions changes, of a person, nothing but Conditions and,
\* of a practice, nothing but SimulatedConditionCounts; neither changes the
\* census, the candidates, the conditional tables or the grouping.
C24_FramesOfEstimateAndAssign ==
    [][/\ pc = "estimateBias" =>
             /\ people' = people
             /\ Inputs' = Inputs
             /\ DOMAIN gps' = DOMAIN gps
             /\ \A code \in DOMAIN gps :
                   gps'[code] =
                       [gps[code] EXCEPT !.ConditionBias[CurrentCondition] =
                           gps'[code].ConditionBias[CurrentCondition]]
       /\ pc = "assignConditions" =>
             /\ Len(people') = Len(people)
             /\ Inputs' = Inputs
             /\ \A i \in 1..Len(people) :
                   people'[i] = [people[i] EXCEPT !.Conditions = people'[i].Conditions]
             /\ DOMAIN gps' = DOMAIN gps
             /\ \A code \in DOMAIN gps :
                   gps'[code] =
                       [gps[code] EXCEPT !.SimulatedConditionCounts =
                           gps'[code].SimulatedConditionCounts]
      ]_vars

\* both functions have acted: a practice with a person has a corrected bias
\* for diabetes and counts a person with hypertension
C24_Witness ==
    /\ pc = "writeGPs"
    /\ \E code \in DOMAIN gps :
          /\ gps[code].SimulatedListSize > 0
          /\ gps[code].ConditionBias[QOFConditionDiabetes] \notin {Zero, One}
          /\ gps[code].SimulatedConditionCounts[QOFConditionHypertension] > 0
          /\ \E i \in AssignedTo(code) : people[i].Conditions[QOFConditionHypertension]

-----------------------------------------------------------------------------
(* buildNearbyGPs under the scheduler of Go: a goroutine that can take a    *)
(* step is eventually run                                                   *)

\* a step of the producer, which is also the collector
Producer ==
    \/ \E w \in Workers : Send(w)
    \/ CloseChannel
    \/ Collect
    \/ ReturnNearby

FairNearby ==
    /\ WF_vars(Producer)
    /\ \A w \in 1..MaxCores : WF_vars(w \in Workers /\ Worker(w))

SpecNearbyFair == InitNearby /\ [][NextNearby]_vars /\ FairNearby

\* C25: buildNearbyGPs eventually returns, for every input, 1 or more
\* workers and every interleaving, a feature without a code included.
C25_EventuallyReturns == <>(pc = "returned")

\* the producer waits to send a practice and every worker has returned:
\* nothing can receive, and no goroutine can take a step
Stuck ==
    /\ pc = "send"
    /\ goroutines.todo # {}
    /\ \A w \in Workers : goroutines.worker[w].at = "exited"

\* C25, as a property of states: the producer never waits to send when no
\* worker is left to receive.
C25_ProducerNeverStuck == ~Stuck

\* a worker has reported an error and stopped, and buildNearbyGPs has
\* returned that error, because another worker received the other practice
C25_Witness ==
    /\ pc = "returned"
    /\ result.err = "error"
    /\ result.practices = 1

-----------------------------------------------------------------------------
(* Specification of writePopulation from the derivation loop to the start   *)
(* of assignConditions, for every population of up to two persons of the    *)
(* practice g1                                                              *)

BuiltPersons ==
    {NewPerson(0, sex, age, "h1", "g1") : sex \in Sexes, age \in Ages}

BuiltPeople ==
    {<<>>} \cup {<<p>> : p \in BuiltPersons}
    \cup {<<p, [q EXCEPT !.ID = 1]>> : p \in BuiltPersons, q \in BuiltPersons}

InitDerive ==
    /\ pc = "buildJointPrevalence"
    /\ people \in BuiltPeople
    /\ \E prevalence \in {NotReported, Reported} :
           gps = ("g1" :> [NewGPPractice("g1", NorthCentralLondonICBCode, 500, 10000,
                                         prevalence)
                              EXCEPT !.SimulatedListSize = Len(people)])
    /\ lsoas = ("h1" :> Filled(Census({}, 0), "m1", 1))
    /\ homes = {"h1"}
    /\ nearbyGPs = ("h1" :> <<"g1">>)
    /\ noPossibleGPs = 0
    /\ joint = Empty
    /\ byPractice = Empty
    /\ loop = [todo |-> {}, cur |-> "-", i |-> 0]
    /\ output = Empty
    /\ byAge = Empty
    /\ json = Empty
    /\ goroutines = Empty
    /\ args = Empty
    /\ result = Zero

NextDerive ==
    \/ DeriveConditionals
    \/ GroupByGP
    \/ EstimateBias
    \/ EstimateReturn

SpecDerive == InitDerive /\ [][NextDerive]_vars

\* the persons of people of the sex whose age is in the band
PeopleInBand(sex, a) ==
    {i \in 1..Len(people) : people[i].Sex = sex /\ Contains(a.AgeRange, people[i].Age)}

RECURSIVE LookupsOver(_, _)
\* the sum of the lookups of the table over the persons S of people
LookupsOver(table, S) ==
    IF S = {} THEN Zero
    ELSE LET i == CHOOSE j \in S : TRUE
         IN  RAdd(Prevalence(table, people[i].Sex, people[i].Age),
                  LookupsOver(table, S \ {i}))

\* C26: the derivation loop raises no error, and for every ordered pair,
\* both derived tables and male and female, the derived list has one entry
\* per band of the joint table of the pair, in its order and with its age
\* range; the entry of a band with no person of the sex, and the entry given
\* the other condition present of a band whose average pc2 is 0, is stored
\* although it is no number, and the run goes on to the grouping, the
\* estimator and assignConditions with it. (No table of the program has a
\* prevalence of 1; the entry given the other condition absent of a band
\* with pc2 = 1 is the subject of C9_DerivedFromBandAverages.)
C26_EveryBandStored ==
    pc # "buildJointPrevalence" =>
        /\ DOMAIN joint = JointKeys
        /\ \A key \in JointKeys : \A sex \in {Male, Female} :
              LET bands == AllComorbidities[<<key[1], key[2]>>][sex + 1]
                  derived == joint[key][sex + 1]
              IN  /\ Len(derived) = Len(bands)
                  /\ \A k \in 1..Len(bands) :
                        LET S == PeopleInBand(sex, bands[k])
                            pc2 == RDiv(LookupsOver(AllPrevalences[key[2]], S),
                                        FromInt(Cardinality(S)))
                        IN  /\ derived[k].AgeRange = bands[k].AgeRange
                            /\ S = {} => IsNaN(derived[k].Prevalence)
                            /\ (key[3] /\ pc2 = Zero) => IsNaN(derived[k].Prevalence)

\* assignConditions is about to start with a joint map that holds an entry
\* of a band without a person and the entry of hypertension given diabetes
\* of a band whose only person, a female, has the diabetes prevalence 0
C26_Witness ==
    /\ pc = "assignConditions"
    /\ \E i \in 1..Len(people) :
          /\ people[i].Sex = Female
          /\ Prevalence(DiabetesPrevalence, Female, people[i].Age) = Zero
          /\ \E k \in 1..Len(DiabetesAndHypertensionPrevalence[Female + 1]) :
                /\ PeopleInBand(Female, DiabetesAndHypertensionPrevalence[Female + 1][k])
                       = {i}
                /\ IsNaN(joint[<<QOFConditionHypertension, QOFConditionDiabetes,
                                 TRUE>>][Female + 1][k].Prevalence)
    /\ \E key \in JointKeys : \E k \in 1..Len(joint[key][Male + 1]) :
          /\ PeopleInBand(Male, joint[key][Male + 1][k]) = {}
          /\ IsNaN(joint[key][Male + 1][k].Prevalence)

-----------------------------------------------------------------------------
(* Properties of the joint map *)

\* the derivation loop is behind
AfterDerivation == pc \notin {"buildPopulation", "buildJointPrevalence", "failed"}

\* C27: after the derivation loop the joint map has the 2 x n x (n - 1) keys
\* of the ordered pairs of distinct conditions with both values of
\* SecondPresent, so the key of every non-first position of every order the
\* shuffle can leave, with either outcome for the predecessor, is in the
\* map; and when assignConditions panics, it is not at a key the map lacks.
C27_JointMapComplete ==
    AfterDerivation =>
        /\ DOMAIN joint = {<<c, o, b>> : c \in Conditions, o \in Conditions,
                                          b \in BOOLEAN} \ {<<c, c, b>> : c \in Conditions,
                                                                            b \in BOOLEAN}
        /\ Cardinality(DOMAIN joint)
               = 2 * Len(ConditionList) * (Len(ConditionList) - 1)
        /\ \A perm \in ShuffleOrders : \A i \in 2..Len(perm) : \A b \in BOOLEAN :
              <<perm[i], perm[i - 1], b>> \in DOMAIN joint
        /\ (pc = "panicked" /\ "perm" \in DOMAIN result) =>
              \/ Len(result.values) = 0
              \/ KeyAt(Len(result.values) + 1) \in DOMAIN joint

\* assignConditions has drawn all three conditions of a person, the second
\* and third from tables of the joint map
C27_Witness ==
    /\ pc = "assignConditions"
    /\ "perm" \in DOMAIN result
    /\ Len(result.values) = Len(ConditionList)
    /\ KeyAt(2) \in DOMAIN joint
    /\ KeyAt(3) \in DOMAIN joint
    /\ people[result.person].Conditions[result.perm[1]]
    /\ ~people[result.person].Conditions[result.perm[2]]

-----------------------------------------------------------------------------
(* Ages outside the bands of a joint table *)

\* table has a list for the sex and no band of it contains the age
NoBand(table, sex, age) ==
    /\ sex + 1 <= Len(table)
    /\ \A k \in 1..Len(table[sex + 1]) : ~Contains(table[sex + 1][k].AgeRange, age)

\* the positions after the first of the order drawn for the last person
\* whose pair (condition, predecessor) has no band for the person's age
Uncovered ==
    {i \in 2..Len(result.perm) :
        NoBand(AllComorbidities[<<result.perm[i], result.perm[i - 1]>>],
               people[result.person].Sex, people[result.person].Age)}

\* C28: for the person assignConditions drew for last, a condition at a
\* non-first position of the shuffled order whose joint table with its
\* predecessor has no band containing the person's age is not present, and
\* the value its sample was compared with is not above 0, whatever the
\* marginal prevalence and the bias; the derived table used has no band for
\* the age either.  So a condition all of whose joint tables lack a band for
\* the person's age is held only if it was drawn first.
C28_NoBandNeverPresent ==
    "perm" \in DOMAIN result =>
        /\ \A i \in Uncovered :
              /\ ~people[result.person].Conditions[result.perm[i]]
              /\ i <= Len(result.values) => ~RLess(Zero, result.values[i])
              /\ KeyAt(i) \in DOMAIN joint =>
                    NoBand(joint[KeyAt(i)], people[result.person].Sex,
                           people[result.person].Age)
        /\ \A c \in Conditions :
              (/\ people[result.person].Conditions[c]
               /\ \A o \in Conditions \ {c} :
                     NoBand(AllComorbidities[<<c, o>>], people[result.person].Sex,
                            people[result.person].Age))
              => result.perm[1] = c

\* a person whose age lies in the gap between the bands of the table of
\* diabetes and hypertension was drawn for with diabetes right after
\* hypertension, hypertension present, at a practice with a positive bias
\* for diabetes and a positive marginal prevalence of diabetes for the person
C28_Witness ==
    /\ pc = "assignConditions"
    /\ "perm" \in DOMAIN result
    /\ Len(result.values) = Len(ConditionList)
    /\ result.perm[1] = QOFConditionHypertension
    /\ result.perm[2] = QOFConditionDiabetes
    /\ 2 \in Uncovered
    /\ people[result.person].Age > LowBand.Begin
    /\ people[result.person].Conditions[QOFConditionHypertension]
    /\ ~people[result.person].Conditions[QOFConditionDiabetes]
    /\ RLess(Zero, Prevalence(DiabetesPrevalence, people[result.person].Sex,
                              people[result.person].Age))
    /\ people[result.person].GP \in DOMAIN gps
    /\ RLess(Zero, gps[people[result.person].GP].ConditionBias[QOFConditionDiabetes])

\* a person of such an age holds the condition, drawn first
C28_HeldWhenFirst ==
    /\ pc = "assignConditions"
    /\ "perm" \in DOMAIN result
    /\ result.perm[1] = QOFConditionDiabetes
    /\ result.perm[2] = QOFConditionCOPD
    /\ result.perm[3] = QOFConditionHypertension
    /\ 3 \in Uncovered
    /\ people[result.person].Conditions[QOFConditionDiabetes]

-----------------------------------------------------------------------------
(* imputeMissingPrevalanceFromNearby *)

\* the practices of the imputation and the lists nearby may hold for the
\* two regions
ImputeCodes == {"g1", "g2", "g3"}
ImputeLocations == ("g1" :> {500}) @@ ("g2" :> {2000}) @@ ("g3" :> {2200, 3000})
ImputePrevalences ==
    {prevalence \in [Conditions -> {Zero, Quarter, ThreeQuarters}] :
        /\ prevalence[QOFConditionHypertension] \in {Zero, Quarter}
        /\ prevalence[QOFConditionCOPD] = Quarter}
NearbyLists == {<<"g1", "g2">>, <<"g2", "g3">>, <<"g1", "g2", "g3">>}

\* gp.Location.Distance(other.Location), both being points of a line
Distance(gpmap, code, other) ==
    FromInt(Abs(gpmap[code].Location - gpmap[other].Location))

RECURSIVE WeightedSums(_, _, _, _, _, _)
\* the loop "for _, neighbour := range nearby[gp.LSOA]" from entry i on, sums
\* being [n, p] so far
WeightedSums(gpmap, list, i, code, condition, sums) ==
    IF i > Len(list) THEN sums
    ELSE IF /\ list[i] # code
            /\ RLess(Zero, gpmap[list[i]].ConditionPrevalence[condition])
    THEN LET f == RDiv(One, Distance(gpmap, code, list[i]))
         IN  WeightedSums(gpmap, list, i + 1, code, condition,
                          [n |-> RAdd(sums.n, f),
                           p |-> RAdd(sums.p,
                                      RMul(f, gpmap[list[i]].ConditionPrevalence[condition]))])
    ELSE WeightedSums(gpmap, list, i + 1, code, condition, sums)

\* gp.ConditionPrevalence[condition] after the body of the loop over the
\* conditions, the practices being as gpmap has them
ImputedPrevalence(gpmap, nearby, code, condition) ==
    IF gpmap[code].ConditionPrevalence[condition] # Zero
    THEN gpmap[code].ConditionPrevalence[condition]
    ELSE LET sums == WeightedSums(gpmap, TableOf(nearby, gpmap[code].LSOA), 1, code,
                                  condition, [n |-> Zero, p |-> Zero])
         IN  IF RLess(Zero, sums.n) THEN RDiv(sums.p, sums.n)
             ELSE gpmap[code].ConditionPrevalence[condition]

\* a visit that reads the prevalences the practices had at the call
Visit_FromSnapshot(gpmap, nearby, code) ==
    [gpmap EXCEPT ![code].ConditionPrevalence =
        [condition \in Conditions |-> ImputedPrevalence(args.gps, nearby, code, condition)]]

\* one iteration of "for _, gp := range gps": the practices are shared, so
\* the iteration reads what earlier iterations have written
Visit(gpmap, nearby, code) ==
    [gpmap EXCEPT ![code].ConditionPrevalence =
        [condition \in Conditions |-> ImputedPrevalence(gpmap, nearby, code, condition)]]

InitImpute ==
    /\ pc = "impute"
    /\ \E at \in [ImputeCodes -> {500, 2000, 2200, 3000}] :
       \E prevalence \in [ImputeCodes -> ImputePrevalences] :
          /\ \A code \in ImputeCodes : at[code] \in ImputeLocations[code]
          /\ prevalence["g3"][QOFConditionHypertension] = Quarter
          /\ gps = [code \in ImputeCodes |->
                       NewGPPractice(code, NorthCentralLondonICBCode, at[code], 10000,
                                     prevalence[code])]
    /\ \E n1 \in NearbyLists, n2 \in NearbyLists :
          nearbyGPs = ("h1" :> n1) @@ ("h2" :> n2)
    /\ args = [gps |-> gps]
    /\ loop = [todo |-> ImputeCodes, cur |-> "-", i |-> 0]
    /\ lsoas = Empty
    /\ homes = {}
    /\ people = Empty
    /\ noPossibleGPs = 0
    /\ joint = Empty
    /\ byPractice = Empty
    /\ output = Empty
    /\ byAge = Empty
    /\ json = Empty
    /\ goroutines = Empty
    /\ result = Empty

\* the next practice of the range over the map, in any order
ImputeNext ==
    /\ pc = "impute"
    /\ \E code \in loop.todo :
          /\ gps' = Visit(gps, nearbyGPs, code)
          /\ loop' = [todo |-> loop.todo \ {code}, cur |-> code, i |-> loop.i + 1]
    /\ UNCHANGED <<pc, lsoas, homes, nearbyGPs, people, noPossibleGPs, joint,
                   byPractice, output, byAge, json, goroutines, args, result>>

\* the range is over
ImputeReturn ==
    /\ pc = "impute"
    /\ loop.todo = {}
    /\ pc' = "imputed"
    /\ UNCHANGED <<gps, lsoas, homes, nearbyGPs, people, noPossibleGPs, joint,
                   byPractice, loop, output, byAge, json, goroutines, args, result>>

NextImpute == ImputeNext \/ ImputeReturn

SpecImpute == InitImpute /\ [][NextImpute]_vars

\* the prevalences as stated: those of the call for a practice with a
\* nonzero prevalence, and for a practice with prevalence 0 the weighted
\* mean over the neighbours whose prevalence was nonzero at the call, or 0
\* where there is none
Stated(code, condition) == ImputedPrevalence(args.gps, nearbyGPs, code, condition)

\* C29: when imputeMissingPrevalanceFromNearby returns, every prevalence is
\* the one stated, a function of the practices at the call and of nearby
\* alone, and so the same whatever the order of the visits.
C29_SameForEveryOrder ==
    pc = "imputed" =>
        \A code \in DOMAIN gps : \A condition \in Conditions :
            gps[code].ConditionPrevalence[condition] = Stated(code, condition)

\* the prevalences a practice has after its visit never change again, and a
\* nonzero prevalence is never changed
C29_WrittenOnce ==
    [][\A code \in DOMAIN gps : \A condition \in Conditions :
          (code \notin loop.todo \/ gps[code].ConditionPrevalence[condition] # Zero)
          => gps'[code].ConditionPrevalence[condition]
                 = gps[code].ConditionPrevalence[condition]]_vars

\* the practice visited first has the prevalences stated
C29_FirstVisitAsStated ==
    (pc = "impute" /\ loop.i = 1) =>
        \A condition \in Conditions :
            gps[loop.cur].ConditionPrevalence[condition] = Stated(loop.cur, condition)

\* the function has returned with a prevalence imputed, and every
\* prevalence is the one stated
C29_Witness ==
    /\ pc = "imputed"
    /\ \E code \in DOMAIN gps :
          /\ args.gps[code].ConditionPrevalence[QOFConditionDiabetes] = Zero
          /\ RLess(Zero, gps[code].ConditionPrevalence[QOFConditionDiabetes])
    /\ \A code \in DOMAIN gps : \A condition \in Conditions :
          gps[code].ConditionPrevalence[condition] = Stated(code, condition)

\* the function has returned with a practice whose prevalence of 0 was
\* replaced although none of its neighbours had a nonzero prevalence at the
\* call
C29_ImputedFromImputed ==
    /\ pc = "imputed"
    /\ \E code \in DOMAIN gps :
          /\ args.gps[code].ConditionPrevalence[QOFConditionDiabetes] = Zero
          /\ Stated(code, QOFConditionDiabetes) = Zero
          /\ RLess(Zero, gps[code].ConditionPrevalence[QOFConditionDiabetes])

-----------------------------------------------------------------------------
(* Properties of the totals of population.json *)

\* the sum of the counts of the "all" bucket of the output of toJSON
AllCounted == SumInts(json.Breakdowns[1].ByValue[1], 1)

\* C30: when the pipeline has written population.json, its
\* TotalSimulatedListSize is the sum of the counts of the "all" bucket of
\* the breakdown "all", which is the number of persons whose practice is of
\* the North Central London ICB.
C30_SimulatedTotalIsAllBucket ==
    pc = "done" =>
        /\ json.Breakdowns[1].Key = "all"
        /\ Len(json.Breakdowns[1].ByValue) = 1
        /\ json.TotalSimulatedListSize = AllCounted
        /\ AllCounted = Cardinality(IcbPeople(people, gps))

\* population.json is written for a population with a person of a practice
\* of the ICB and a person of a practice of another ICB
C30_Witness ==
    /\ pc = "done"
    /\ json.TotalSimulatedListSize = 1
    /\ AllCounted = 1
    /\ Len(people) = 2
    /\ \E i \in 1..Len(people) : gps[people[i].GP].ICB # NorthCentralLondonICBCode

=============================================================================
